---- MODULE Spec2Model ----
(***************************************************************************)
(* Markdown-to-HTML core of inkdown-desktop (src-tauri/src/markdown).      *)
(* A document is a sequence of lines, a line a sequence of one-character   *)
(* strings.  The two dialects ("basic": basic_parser.rs, "gfm":            *)
(* gfm_parser.rs) are modelled side by side; every operator that depends   *)
(* on the dialect takes it as its first parameter d.                       *)
(***************************************************************************)
EXTENDS Integers, Sequences, FiniteSets, TLC

VARIABLES dialect, lines, pc, i, tokens, html_cache, r, html, word_count, result,
          sessions, content_cache, creating, uuid_count, tab_result

vars == <<dialect, lines, pc, i, tokens, html_cache, r, html, word_count, result,
          sessions, content_cache, creating, uuid_count, tab_result>>

\* the state of one parser instance and of the call it is serving
parser_vars == <<dialect, lines, pc, i, tokens, html_cache, r, html, word_count, result>>

\* the process-wide TabManager (commands/tabs.rs), the create_tab calls in flight,
\* the number of tab ids handed out, and the value the last command returned
tab_vars == <<sessions, content_cache, creating, uuid_count, tab_result>>

\* workspace paths the commands are called with
Workspaces == {"w1", "w2"}

\* TabManager::new behind TAB_MANAGER.get_or_init: no session, nothing cached;
\* no command has been called
TabManagerNew ==
  /\ sessions = [w \in Workspaces |-> <<>>]
  /\ content_cache = {}
  /\ creating = {}
  /\ uuid_count = 0
  /\ tab_result = <<>>

(***************************************************************************)
(* String primitives of the Rust standard library, on character sequences. *)
(***************************************************************************)
\* char::is_whitespace / u8::is_ascii_whitespace restricted to the model's characters
WS == {" ", "\t", "\n"}

\* the backtick character (a backtick cannot be written inside a string here)
BT == "backtick"

Min(S) == CHOOSE x \in S : \A y \in S : x <= y

Max(S) == CHOOSE x \in S : \A y \in S : x >= y

\* str::trim_start
TrimStart(s) ==
  LET keep == {k \in 1..Len(s) : s[k] \notin WS}
  IN IF keep = {} THEN <<>> ELSE SubSeq(s, Min(keep), Len(s))

\* str::trim_end
TrimEnd(s) ==
  LET keep == {k \in 1..Len(s) : s[k] \notin WS}
  IN IF keep = {} THEN <<>> ELSE SubSeq(s, 1, Max(keep))

\* str::trim
Trim(s) == TrimStart(TrimEnd(s))

\* str::starts_with
StartsWith(s, p) == Len(s) >= Len(p) /\ SubSeq(s, 1, Len(p)) = p

\* str::ends_with
EndsWith(s, p) == Len(s) >= Len(p) /\ SubSeq(s, Len(s) - Len(p) + 1, Len(s)) = p

\* str::contains(char)
Contains(s, c) == \E k \in 1..Len(s) : s[k] = c

\* str::find(&str): the 0-based offset of the first match, -1 for None
Find(s, p) ==
  LET hits == {k \in 0..(Len(s) - Len(p)) : SubSeq(s, k + 1, k + Len(p)) = p}
  IN IF hits = {} THEN -1 ELSE Min(hits)

\* s[from..]: the suffix from 0-based offset from
From(s, from) == SubSeq(s, from + 1, Len(s))

\* str::split(char): the pieces between the occurrences of c (always at least one piece)
RECURSIVE Split(_, _)
Split(s, c) ==
  LET k == Find(s, <<c>>)
  IN IF k = -1 THEN <<s>> ELSE <<SubSeq(s, 1, k)>> \o Split(From(s, k + 1), c)

\* concatenation of a sequence of sequences
RECURSIVE Flatten(_)
Flatten(ss) ==
  IF ss = <<>> THEN <<>>
  ELSE IF Len(ss) = 1 THEN ss[1]
  ELSE Flatten(SubSeq(ss, 1, Len(ss) \div 2)) \o Flatten(SubSeq(ss, (Len(ss) \div 2) + 1, Len(ss)))

(***************************************************************************)
(* Literals of the source.                                                 *)
(***************************************************************************)
\* Markup emitted by process_inline_formatting
DEL_OPEN == <<"<", "d", "e", "l", ">">>
DEL_CLOSE == <<"<", "/", "d", "e", "l", ">">>
STRONG_OPEN == <<"<", "s", "t", "r", "o", "n", "g", ">">>
STRONG_CLOSE == <<"<", "/", "s", "t", "r", "o", "n", "g", ">">>
\* a single star opening a strong element: a reading that C26 tells apart from <em>
EM_OPEN_STRONG == STRONG_OPEN
EM_OPEN == <<"<", "e", "m", ">">>
EM_CLOSE == <<"<", "/", "e", "m", ">">>
CODE_OPEN == <<"<", "c", "o", "d", "e", ">">>
CODE_CLOSE == <<"<", "/", "c", "o", "d", "e", ">">>
IMG_OPEN == <<"<", "i", "m", "g", " ", "s", "r", "c", "=", "\"">>
IMG_ALT == <<"\"", " ", "a", "l", "t", "=", "\"">>
IMG_CLOSE == <<"\"", " ", "l", "o", "a", "d", "i", "n", "g", "=", "\"", "l", "a", "z", "y", "\"", ">">>
A_OPEN == <<"<", "a", " ", "h", "r", "e", "f", "=", "\"">>
A_MID == <<"\"", ">">>
A_CLOSE == <<"<", "/", "a", ">">>

\* Entities produced by escape_html
AMP == <<"&", "a", "m", "p", ";">>
LT == <<"&", "l", "t", ";">>
GT == <<"&", "g", "t", ";">>
QUOT == <<"&", "q", "u", "o", "t", ";">>
APOS == <<"&", "#", "x", "2", "7", ";">>

\* Markup emitted by parse_gfm_markdown_to_html / parse_basic_markdown_to_html
H_OPEN == <<"<", "h">>
H_CLOSE == <<"<", "/", "h">>
TAG_END == <<">">>
P_OPEN == <<"<", "p", ">">>
P_CLOSE == <<"<", "/", "p", ">">>
PRE_LANG_OPEN == <<"<", "p", "r", "e", ">", "<", "c", "o", "d", "e", " ", "c", "l", "a", "s", "s", "=", "\"", "l", "a", "n", "g", "u", "a", "g", "e", "-">>
PRE_LANG_MID == <<"\"", ">">>
PRE_OPEN == <<"<", "p", "r", "e", ">", "<", "c", "o", "d", "e", ">">>
PRE_CLOSE == <<"<", "/", "c", "o", "d", "e", ">", "<", "/", "p", "r", "e", ">">>
UL_OPEN == <<"<", "u", "l", ">">>
UL_CLOSE == <<"<", "/", "u", "l", ">">>
OL_OPEN == <<"<", "o", "l", ">">>
OL_CLOSE == <<"<", "/", "o", "l", ">">>
LI_OPEN == <<"<", "l", "i", ">">>
LI_CLOSE == <<"<", "/", "l", "i", ">">>
CHECKBOX_ON == <<"<", "i", "n", "p", "u", "t", " ", "t", "y", "p", "e", "=", "\"", "c", "h", "e", "c", "k", "b", "o", "x", "\"", " ", "c", "h", "e", "c", "k", "e", "d", " ", "d", "i", "s", "a", "b", "l", "e", "d", ">", " ">>
CHECKBOX_OFF == <<"<", "i", "n", "p", "u", "t", " ", "t", "y", "p", "e", "=", "\"", "c", "h", "e", "c", "k", "b", "o", "x", "\"", " ", "d", "i", "s", "a", "b", "l", "e", "d", ">", " ">>
TABLE_OPEN == <<"<", "t", "a", "b", "l", "e", ">">>
TABLE_CLOSE == <<"<", "/", "t", "a", "b", "l", "e", ">">>
THEAD_OPEN == <<"<", "t", "h", "e", "a", "d", ">", "<", "t", "r", ">">>
THEAD_CLOSE == <<"<", "/", "t", "r", ">", "<", "/", "t", "h", "e", "a", "d", ">">>
TBODY_OPEN == <<"<", "t", "b", "o", "d", "y", ">">>
TBODY_CLOSE == <<"<", "/", "t", "b", "o", "d", "y", ">">>
TR_OPEN == <<"<", "t", "r", ">">>
TR_CLOSE == <<"<", "/", "t", "r", ">">>
TH_OPEN == <<"<", "t", "h">>
TH_CLOSE == <<"<", "/", "t", "h", ">">>
TD_OPEN == <<"<", "t", "d">>
TD_CLOSE == <<"<", "/", "t", "d", ">">>
STYLE_LEFT == <<" ", "s", "t", "y", "l", "e", "=", "\"", "t", "e", "x", "t", "-", "a", "l", "i", "g", "n", ":", " ", "l", "e", "f", "t", "\"">>
STYLE_CENTER == <<" ", "s", "t", "y", "l", "e", "=", "\"", "t", "e", "x", "t", "-", "a", "l", "i", "g", "n", ":", " ", "c", "e", "n", "t", "e", "r", "\"">>
STYLE_RIGHT == <<" ", "s", "t", "y", "l", "e", "=", "\"", "t", "e", "x", "t", "-", "a", "l", "i", "g", "n", ":", " ", "r", "i", "g", "h", "t", "\"">>
BQ_OPEN == <<"<", "b", "l", "o", "c", "k", "q", "u", "o", "t", "e", ">", "<", "p", ">">>
BQ_CLOSE == <<"<", "/", "p", ">", "<", "/", "b", "l", "o", "c", "k", "q", "u", "o", "t", "e", ">">>
ALERT_A == <<"<", "d", "i", "v", " ", "c", "l", "a", "s", "s", "=", "\"", "a", "l", "e", "r", "t", " ", "a", "l", "e", "r", "t", "-">>
ALERT_B == <<"\"", ">", "<", "d", "i", "v", " ", "c", "l", "a", "s", "s", "=", "\"", "a", "l", "e", "r", "t", "-", "i", "c", "o", "n", "\"", ">">>
ALERT_C == <<"<", "/", "d", "i", "v", ">", "<", "d", "i", "v", " ", "c", "l", "a", "s", "s", "=", "\"", "a", "l", "e", "r", "t", "-", "c", "o", "n", "t", "e", "n", "t", "\"", ">", "<", "d", "i", "v", " ", "c", "l", "a", "s", "s", "=", "\"", "a", "l", "e", "r", "t", "-", "t", "i", "t", "l", "e", "\"", ">">>
ALERT_D == <<"<", "/", "d", "i", "v", ">", "<", "p", ">">>
ALERT_E == <<"<", "/", "p", ">", "<", "/", "d", "i", "v", ">", "<", "/", "d", "i", "v", ">">>

\* Source-text markers
FENCE == <<BT, BT, BT>>
TAG_NOTE == <<"[", "!", "N", "O", "T", "E", "]">>
TAG_TIP == <<"[", "!", "T", "I", "P", "]">>
TAG_IMPORTANT == <<"[", "!", "I", "M", "P", "O", "R", "T", "A", "N", "T", "]">>
TAG_WARNING == <<"[", "!", "W", "A", "R", "N", "I", "N", "G", "]">>
TAG_CAUTION == <<"[", "!", "C", "A", "U", "T", "I", "O", "N", "]">>
(***************************************************************************)
(* Inline formatter.                                                        *)
(***************************************************************************)
Dialects == {"basic", "gfm"}

\* per-construct character caps of extract_until and extract_link
GfmMaxDouble == 300

GfmMaxSingle == 200

BasicMaxSpan == 200

GfmMaxLinkText == 200

GfmMaxUrl == 500

BasicMaxLinkText == 100

BasicMaxUrl == 200

\* max_len of extract_until for a delimiter of the given length (1 or 2)
MaxSpan(d, n) == IF d = "gfm" THEN (IF n = 2 THEN GfmMaxDouble ELSE GfmMaxSingle) ELSE BasicMaxSpan

\* escape_html: the five HTML-special characters become entities
EscapeChar(c) ==
  CASE c = "&" -> AMP
    [] c = "<" -> LT
    [] c = ">" -> GT
    [] c = "\"" -> QUOT
    [] c = "'" -> APOS
    [] OTHER -> <<c>>

escape_html(text) == Flatten([k \in 1..Len(text) |-> EscapeChar(text[k])])

\* extract_until for the one-character delimiters "*", "_" and BT.
\* p is the 1-based position of the next character of the shared iterator;
\* the result's pos is where the iterator stands when the call returns.
\* The loop takes characters up to the first delimiter at stop; it gives up on
\* the character that takes the content past max, having consumed it.
SpanStop(t, hits) == IF hits = {} THEN Len(t) + 1 ELSE Min(hits)

SpanUpTo(t, p, stop, close, content, room) ==
  IF stop - p > room
  THEN [found |-> FALSE, content |-> content \o SubSeq(t, p, p + room - 1), pos |-> p + room + 1]
  ELSE [found |-> stop <= Len(t), content |-> content \o SubSeq(t, p, stop - 1),
        pos |-> IF stop <= Len(t) THEN stop + close ELSE stop]

ExtractSingle(t, p, c, content, max) ==
  SpanUpTo(t, p, SpanStop(t, {q \in p..Len(t) : t[q] = c}), 1, content, max - Len(content))

\* extract_until for the two-character delimiters "**", "__" and "~~": a single
\* delimiter character is taken as content
ExtractDouble(t, p, c, content, max) ==
  SpanUpTo(t, p, SpanStop(t, {q \in p..(Len(t) - 1) : t[q] = c /\ t[q + 1] = c}), 2, content,
           max - Len(content))

\* extract_until(chars, delimiter): delimiter is c repeated n times
extract_until(d, t, p, c, n) ==
  IF n = 2 THEN ExtractDouble(t, p, c, <<>>, MaxSpan(d, 2))
  ELSE ExtractSingle(t, p, c, <<>>, MaxSpan(d, 1))

\* first loop of extract_link: the text up to the first "]" (or to the end of input)
LinkTextUpTo(t, p, stop, acc, room) ==
  IF stop - p > room
  THEN [ok |-> FALSE, text |-> acc \o SubSeq(t, p, p + room - 1), pos |-> p + room + 1]
  ELSE [ok |-> TRUE, text |-> acc \o SubSeq(t, p, stop - 1),
        pos |-> IF stop <= Len(t) THEN stop + 1 ELSE stop]

LinkText(t, p, acc, max) ==
  LinkTextUpTo(t, p, SpanStop(t, {q \in p..Len(t) : t[q] = "]"}), acc, max - Len(acc))

\* second loop of extract_link: the url up to the first ")"
LinkUrlUpTo(t, p, stop, acc, room) ==
  IF stop - p > room
  THEN [ok |-> FALSE, url |-> acc \o SubSeq(t, p, p + room - 1), pos |-> p + room + 1]
  ELSE [ok |-> stop <= Len(t), url |-> acc \o SubSeq(t, p, stop - 1),
        pos |-> IF stop <= Len(t) THEN stop + 1 ELSE stop]

LinkUrl(t, p, acc, max) ==
  LinkUrlUpTo(t, p, SpanStop(t, {q \in p..Len(t) : t[q] = ")"}), acc, max - Len(acc))

\* extract_link once the link text a is read: "(" must follow it
LinkAfterText(t, p, a) ==
  IF ~a.ok \/ a.pos > Len(t) THEN [found |-> FALSE, text |-> <<>>, url |-> <<>>, pos |-> p]
  ELSE IF t[a.pos] # "(" THEN [found |-> FALSE, text |-> <<>>, url |-> <<>>, pos |-> p]
  ELSE [found |-> TRUE, text |-> a.text, url |-> <<>>, pos |-> a.pos + 1]

\* extract_link once the url u is read
LinkResult(h, u) ==
  IF h.found THEN [found |-> u.ok, text |-> h.text, url |-> u.url, pos |-> u.pos] ELSE h

LinkWithHead(t, h, max_url) == LinkResult(h, IF h.found THEN LinkUrl(t, h.pos, <<>>, max_url) ELSE h)

\* extract_link on a clone of the iterator standing at p
extract_link(d, t, p) ==
  LinkWithHead(t,
               LinkAfterText(t, p, LinkText(t, p, <<>>, IF d = "gfm" THEN GfmMaxLinkText ELSE BasicMaxLinkText)),
               IF d = "gfm" THEN GfmMaxUrl ELSE BasicMaxUrl)

\* the characters that send a line through the character scanner
Triggers(d) == IF d = "gfm" THEN {"*", BT, "[", "!", "~", "_"} ELSE {"*", BT, "[", "!"}

\* a delimited span: the opener is c repeated n times and e is what extract_until
\* returned.  On a match the content is wrapped in open/close (escaped when esc),
\* otherwise the opener is emitted literally; in both cases scanning goes on
\* where extract_until left the iterator
RECURSIVE ScanChars(_, _, _)
SpanOut(d, t, e, c, n, open, close, esc) ==
  IF e.found
  THEN open \o (IF esc THEN escape_html(e.content) ELSE e.content) \o close \o ScanChars(d, t, e.pos)
  ELSE [k \in 1..n |-> c] \o ScanChars(d, t, e.pos)

Span(d, t, p, c, n, open, close, esc) ==
  SpanOut(d, t, extract_until(d, t, p + n, c, n), c, n, open, close, esc)

\* an image or link candidate: l is what extract_link returned on the clone, p
\* the position of the iterator itself, lit the characters emitted on a failure
LinkOut(d, t, p, l, open, mid, close, lit) ==
  IF l.found
  THEN open \o escape_html(l.url) \o mid \o escape_html(l.text) \o close \o ScanChars(d, t, l.pos)
  ELSE lit \o ScanChars(d, t, p)

\* the arm of the match for the character ch at p, peek being the one after it
ScanArm(d, t, p, ch, peek) ==
  CASE d = "gfm" /\ ch = "~" /\ peek = "~" -> Span(d, t, p, "~", 2, DEL_OPEN, DEL_CLOSE, FALSE)
    [] ch = "*" /\ peek = "*" -> Span(d, t, p, "*", 2, STRONG_OPEN, STRONG_CLOSE, FALSE)
    [] ch = "*" /\ peek # "*" -> Span(d, t, p, "*", 1, EM_OPEN, EM_CLOSE, FALSE)
    [] d = "gfm" /\ ch = "_" /\ peek = "_" -> Span(d, t, p, "_", 2, STRONG_OPEN, STRONG_CLOSE, FALSE)
    [] d = "gfm" /\ ch = "_" /\ peek # "_" -> Span(d, t, p, "_", 1, EM_OPEN, EM_CLOSE, FALSE)
    [] ch = BT -> Span(d, t, p, BT, 1, CODE_OPEN, CODE_CLOSE, TRUE)
    [] ch = "!" /\ peek = "[" ->
         LinkOut(d, t, p + 2, extract_link(d, t, p + 2), IMG_OPEN, IMG_ALT, IMG_CLOSE, <<"!">>)
    [] ch = "[" ->
         LinkOut(d, t, p + 1, extract_link(d, t, p + 1), A_OPEN, A_MID, A_CLOSE, <<"[">>)
    [] OTHER -> <<ch>> \o ScanChars(d, t, p + 1)

\* the loop over chars.next() of process_inline_formatting
\* (a run of characters that start no construct is pushed as it is, one
\* character per turn of the loop; PlainEnd is where the run from p ends)
PlainEnd(d, t, p) == SpanStop(t, {q \in p..Len(t) : t[q] \in Triggers(d)})

ScanChars(d, t, p) ==
  IF p > Len(t) THEN <<>>
  ELSE IF t[p] \notin Triggers(d) THEN SubSeq(t, p, PlainEnd(d, t, p) - 1) \o ScanChars(d, t, PlainEnd(d, t, p))
  ELSE ScanArm(d, t, p, t[p], IF p < Len(t) THEN t[p + 1] ELSE "EOF")

\* process_inline_formatting without the cache: empty text, fast path, scanner
FormatInline(d, text) ==
  IF text = <<>> THEN <<>>
  ELSE IF ~\E k \in 1..Len(text) : text[k] \in Triggers(d) THEN text
  ELSE ScanChars(d, text, 1)

(***************************************************************************)
(* The formatting cache (html_cache), keyed by hash_string of the line.    *)
(***************************************************************************)
\* size limits guarding the inserts of process_inline_formatting
GfmCacheLimit == 256

BasicFastCacheLimit == 64

\* size above which parse() evicts half of the entries
GfmEvictAbove == 256

BasicEvictAbove == 128

EmptyCache == [k \in {} |-> <<>>]

\* width in bits of the digest the model keeps
HashBits == 16

\* the printable ASCII characters in code order, from the space (code 32) on
Ascii ==
  << " ", "!", "\"", "#", "$", "%", "&", "'", "(", ")", "*", "+", ",", "-", ".", "/",
     "0", "1", "2", "3", "4", "5", "6", "7", "8", "9", ":", ";", "<", "=", ">", "?",
     "@", "A", "B", "C", "D", "E", "F", "G", "H", "I", "J", "K", "L", "M", "N", "O",
     "P", "Q", "R", "S", "T", "U", "V", "W", "X", "Y", "Z", "[", "\\", "]", "^", "_",
     BT, "a", "b", "c", "d", "e", "f", "g", "h", "i", "j", "k", "l", "m", "n", "o",
     "p", "q", "r", "s", "t", "u", "v", "w", "x", "y", "z", "{", "|", "}", "~" >>

\* the byte of a character as the hasher reads it
AsciiCode ==
  [c \in {Ascii[k] : k \in 1..Len(Ascii)} |-> 31 + (CHOOSE k \in 1..Len(Ascii) : Ascii[k] = c)]

CharCode(c) ==
  IF c = "\t" THEN 9
  ELSE IF c \in DOMAIN AsciiCode THEN AsciiCode[c]
  ELSE 0

\* hash_string: the digest DefaultHasher gives for the line.  The digest has a
\* fixed width and the cache is keyed by it alone, so two lines with one digest
\* share a cache entry.  The model keeps that: a multiplicative hash over the
\* bytes, cut to HashBits bits (64 in the source).
MulMod(a, b) ==
  ((a * (b % 256)) + ((a * (b \div 256)) % (2 ^ HashBits)) * 256) % (2 ^ HashBits)

\* the digest h of a run of bytes with 31 to the power of its length, both
\* cut to HashBits bits: h is the value of h * 31 + byte taken over the run
HashJoin(lo, hi) == [h |-> (MulMod(lo.h, hi.p) + hi.h) % (2 ^ HashBits), p |-> MulMod(lo.p, hi.p)]

RECURSIVE HashRange(_, _, _)
HashRange(s, a, b) ==
  IF a > b THEN [h |-> 0, p |-> 1]
  ELSE IF a = b THEN [h |-> CharCode(s[a]) % (2 ^ HashBits), p |-> 31 % (2 ^ HashBits)]
  ELSE HashJoin(HashRange(s, a, (a + b) \div 2), HashRange(s, ((a + b) \div 2) + 1, b))

hash_string(s) == HashRange(s, 1, Len(s)).h

CachePut(cache, h, v) == [k \in (DOMAIN cache) \cup {h} |-> IF k = h THEN v ELSE cache[k]]

CacheLen(cache) == Cardinality(DOMAIN cache)

\* the insert that ends process_inline_formatting on a miss
CacheStore(d, cache, hash, output, fast) ==
  [out |-> output,
   cache |-> IF fast
             THEN (IF CacheLen(cache) < (IF d = "gfm" THEN GfmCacheLimit ELSE BasicFastCacheLimit)
                   THEN CachePut(cache, hash, output) ELSE cache)
             ELSE (IF d = "basic" \/ CacheLen(cache) < GfmCacheLimit
                   THEN CachePut(cache, hash, output) ELSE cache)]

\* process_inline_formatting: the formatted text and the cache it leaves
process_inline_formatting(d, cache, text) ==
  IF text = <<>> THEN [out |-> <<>>, cache |-> cache]
  ELSE IF hash_string(text) \in DOMAIN cache THEN [out |-> cache[hash_string(text)], cache |-> cache]
  ELSE IF ~\E k \in 1..Len(text) : text[k] \in Triggers(d)
    THEN CacheStore(d, cache, hash_string(text), text, TRUE)
  ELSE CacheStore(d, cache, hash_string(text), ScanChars(d, text, 1), FALSE)

\* successive process_inline_formatting calls on texts, in call order
RECURSIVE FormatAll(_, _, _)
FormatNext(d, f, texts) == FormatAll(d, f.cache, texts)

FormatCons(f, rest) == [outs |-> <<f.out>> \o rest.outs, cache |-> rest.cache]

FormatStep(d, f, texts) == FormatCons(f, FormatNext(d, f, texts))

FormatAll(d, cache, texts) ==
  IF texts = <<>> THEN [outs |-> <<>>, cache |-> cache]
  ELSE FormatStep(d, process_inline_formatting(d, cache, Head(texts)), Tail(texts))

(***************************************************************************)
(* Block-level sub-parsers.  Line indices are 0-based as in the source:    *)
(* LineAt(ls, k) is lines[k].  Option values are sequences of length 0/1.  *)
(***************************************************************************)
LineAt(ls, k) == ls[k + 1]

IsBlank(line) == Trim(line) = <<>>

Digits == {"0", "1", "2", "3", "4", "5", "6", "7", "8", "9"}

\* longest ordinal (number of digits before ". ") a list line may carry
GfmMaxOrdinal == 4

BasicMaxOrdinal == 3

is_list_line(d, line) ==
  LET trimmed == TrimStart(line)
      dot_pos == Find(trimmed, <<".", " ">>)
  IN IF d = "basic" /\ Len(trimmed) < 2 THEN FALSE
     ELSE IF StartsWith(trimmed, <<"-", " ">>) \/ StartsWith(trimmed, <<"*", " ">>)
             \/ StartsWith(trimmed, <<"+", " ">>) THEN TRUE
     ELSE IF dot_pos > 0 /\ dot_pos <= (IF d = "gfm" THEN GfmMaxOrdinal ELSE BasicMaxOrdinal)
       THEN \A k \in 1..dot_pos : trimmed[k] \in Digits
     ELSE FALSE

U8Max == 255

GfmMaxDepth == 20

BasicMaxDepth == 15

\* the leading-whitespace count of get_list_indent_level (u8, saturating)
RECURSIVE IndentCount(_, _, _)
IndentCount(line, k, level) ==
  IF k > Len(line) THEN level
  ELSE IF line[k] = " " THEN IndentCount(line, k + 1, IF level + 1 > U8Max THEN U8Max ELSE level + 1)
  ELSE IF line[k] = "\t" THEN IndentCount(line, k + 1, IF level + 4 > U8Max THEN U8Max ELSE level + 4)
  ELSE level

get_list_indent_level(d, line) ==
  LET half == IndentCount(line, 1, 0) \div 2
      cap == IF d = "gfm" THEN GfmMaxDepth ELSE BasicMaxDepth
  IN IF half < cap THEN half ELSE cap

\* u8::saturating_sub
SaturatingSub(a, b) == IF a > b THEN a - b ELSE 0

\* the text of a list line after its marker, as parse_list cuts it
ListContent(is_ordered, line) ==
  LET trimmed == TrimStart(line)
      pos == Find(trimmed, <<".", " ">>)
  IN IF is_ordered THEN (IF pos # -1 THEN From(trimmed, pos + 2) ELSE <<>>)
     ELSE From(trimmed, 2)

\* the task-list prefix test of the extended parse_list: (checked, final_content)
Checkbox(content) ==
  IF Len(content) >= 3 /\ content[1] = "[" /\ content[3] = "]" /\ content[2] = " "
    THEN [checked |-> <<FALSE>>, rest |-> From(content, 3)]
  ELSE IF Len(content) >= 3 /\ content[1] = "[" /\ content[3] = "]" /\ content[2] \in {"x", "X"}
    THEN [checked |-> <<TRUE>>, rest |-> From(content, 3)]
  ELSE [checked |-> <<>>, rest |-> content]

\* one item of parse_list before its text is formatted; cb is the task-list split
RawItem(level, cb) == [text |-> Trim(cb.rest), level |-> level, checked |-> cb.checked]

ListCons(item, rest) == [raw |-> item \o rest.raw, consumed |-> rest.consumed + 1]

\* the loop of parse_list from 0-based index k: the raw items (text still to be
\* formatted) and the number of lines consumed
RECURSIVE ListLoop(_, _, _, _, _)
ListLoop(d, ls, k, base_level, is_ordered) ==
  IF k >= Len(ls) THEN [raw |-> <<>>, consumed |-> 0]
  ELSE IF IsBlank(LineAt(ls, k)) THEN ListCons(<<>>, ListLoop(d, ls, k + 1, base_level, is_ordered))
  ELSE IF ~is_list_line(d, LineAt(ls, k)) THEN [raw |-> <<>>, consumed |-> 0]
  ELSE ListCons(<<RawItem(SaturatingSub(get_list_indent_level(d, LineAt(ls, k)), base_level),
                          IF d = "gfm" THEN Checkbox(ListContent(is_ordered, LineAt(ls, k)))
                          ELSE [checked |-> <<>>, rest |-> ListContent(is_ordered, LineAt(ls, k))])>>,
                ListLoop(d, ls, k + 1, base_level, is_ordered))

\* the List token built from the raw items and their formatted texts
ListToken(d, raw, outs, is_ordered) ==
  [type |-> "List",
   items |-> [k \in 1..Len(raw) |->
                IF d = "gfm"
                THEN [content |-> outs[k], level |-> raw[k].level, checked |-> raw[k].checked]
                ELSE [content |-> outs[k], level |-> raw[k].level]],
   ordered |-> is_ordered]

ListFormatted(d, loop, f, is_ordered) ==
  [token |-> ListToken(d, loop.raw, f.outs, is_ordered), consumed |-> loop.consumed, cache |-> f.cache]

ListParsed(d, cache, loop, is_ordered) ==
  ListFormatted(d, loop, FormatAll(d, cache, [k \in 1..Len(loop.raw) |-> loop.raw[k].text]), is_ordered)

\* is_ordered of parse_list: the first character after the indentation is a digit
IsOrdered(first_line) == TrimStart(first_line) # <<>> /\ TrimStart(first_line)[1] \in Digits

\* a list sub-parser that takes the starting line alone: a reading that C24
\* tells apart from the source's loop over the following lines
parse_list_first_line(d, cache, ls, start) ==
  ListParsed(d, cache,
             ListLoop(d, SubSeq(ls, 1, start + 1), start,
                      get_list_indent_level(d, LineAt(ls, start)), IsOrdered(LineAt(ls, start))),
             IsOrdered(LineAt(ls, start)))

\* parse_list(lines, start): the List token, the lines consumed, the cache left
parse_list(d, cache, ls, start) ==
  ListParsed(d, cache,
             ListLoop(d, ls, start, get_list_indent_level(d, LineAt(ls, start)), IsOrdered(LineAt(ls, start))),
             IsOrdered(LineAt(ls, start)))

\* parse_heading: Some(Heading) or None.  HeadingScan is its character loop:
\* the level reached, or -1 when a character that is neither "#" (below level 6)
\* nor a space is met
RECURSIVE HeadingScan(_, _, _)
HeadingScan(line, k, level) ==
  IF k > Len(line) THEN level
  ELSE IF line[k] = "#" /\ level < 6 THEN HeadingScan(line, k + 1, level + 1)
  ELSE IF line[k] = " " THEN level
  ELSE -1

parse_heading(line) ==
  LET level == HeadingScan(line, 1, 0)
      text == Trim(From(line, level))
  IN IF ~StartsWith(line, <<"#">>) THEN <<>>
     ELSE IF level = -1 THEN <<>>
     ELSE IF level = 0 \/ level > 6 THEN <<>>
     ELSE IF text = <<>> THEN <<>>
     ELSE <<[type |-> "Heading", level |-> level, text |-> text]>>

\* the closing-fence search of parse_code_block from 0-based index k: the code
\* lines collected and the index of the closing fence (-1 when there is none)
RECURSIVE CodeLoop(_, _)
CodeLoop(ls, k) ==
  IF k >= Len(ls) THEN [code |-> <<>>, close |-> -1]
  ELSE IF Trim(LineAt(ls, k)) = FENCE THEN [code |-> <<>>, close |-> k]
  ELSE LET rest == CodeLoop(ls, k + 1)
       IN [code |-> <<LineAt(ls, k)>> \o rest.code, close |-> rest.close]

\* code.push('\n') before every line but the first: while the buffer is still
\* empty (only empty lines so far) no separator is written
RECURSIVE CodeJoin(_, _)
CodeJoin(acc, code_lines) ==
  IF code_lines = <<>> THEN acc
  ELSE CodeJoin((IF acc # <<>> THEN Append(acc, "\n") ELSE acc) \o Head(code_lines), Tail(code_lines))

\* a fence reader that reports no line consumed: a reading of parse_code_block
\* that C20 tells apart from the source's, which counts the opening fence
parse_code_block_stalled(ls, start) ==
  [token |-> [type |-> "CodeBlock", language |-> <<>>, code |-> <<>>], consumed |-> 0]

parse_code_block(ls, start) ==
  LET first_line == LineAt(ls, start)
      lang == Trim(From(first_line, 3))
      language == IF Len(first_line) > 3 /\ lang # <<>> THEN <<lang>> ELSE <<>>
      loop == CodeLoop(ls, start + 1)
  IN [token |-> [type |-> "CodeBlock", language |-> language, code |-> CodeJoin(<<>>, loop.code)],
      consumed |-> IF loop.close = -1 THEN 1 ELSE loop.close - start + 1]

is_horizontal_rule(line) ==
  LET trimmed == Trim(line)
  IN IF Len(trimmed) < 3 THEN FALSE
     ELSE IF trimmed[1] \notin {"-", "*"} THEN FALSE
     ELSE \A k \in 1..Len(trimmed) : trimmed[k] = trimmed[1]

is_potential_table_line(line) == Len(line) > 2 /\ Contains(line, "|")

\* if s.starts_with('|') && s.ends_with('|') { s[1..s.len()-1].split('|') } else
\* { s.split('|') }: the slice s[1..s.len()-1] panics when 1 > s.len()-1
RowCells(s) ==
  IF StartsWith(s, <<"|">>) /\ EndsWith(s, <<"|">>)
  THEN IF 1 > Len(s) - 1 THEN [panic |-> TRUE, cells |-> <<>>]
       ELSE [panic |-> FALSE, cells |-> Split(SubSeq(s, 2, Len(s) - 1), "|")]
  ELSE [panic |-> FALSE, cells |-> Split(s, "|")]

is_table_separator(line) ==
  LET trimmed == Trim(line)
      cells == RowCells(trimmed).cells
      filled == {k \in 1..Len(cells) : Trim(cells[k]) # <<>>}
      OnlyMarks(cell) == \A q \in 1..Len(cell) : cell[q] \in {":", "-", " "}
  IN IF Len(trimmed) < 3 \/ ~Contains(trimmed, "|") THEN FALSE
     ELSE IF \E k \in filled : ~OnlyMarks(Trim(cells[k])) THEN FALSE
     ELSE \E k \in filled : Contains(Trim(cells[k]), "-")

\* the alignment parse_table derives from one separator cell
CellAlignment(cell) ==
  LET trimmed == Trim(cell)
      starts_colon == StartsWith(trimmed, <<":">>)
      ends_colon == EndsWith(trimmed, <<":">>)
  IN IF trimmed # <<>> /\ Contains(trimmed, "-")
     THEN (IF starts_colon /\ ends_colon THEN "Center"
           ELSE IF ends_colon THEN "Right"
           ELSE IF starts_colon THEN "Left"
           ELSE "None")
     ELSE "None"

TrimAll(cells) == [c \in 1..Len(cells) |-> Trim(cells[c])]

RowsCons(rc, rest) ==
  IF rc.panic THEN [panic |-> TRUE, rows |-> <<>>]
  ELSE [panic |-> rest.panic, rows |-> <<TrimAll(rc.cells)>> \o rest.rows]

\* the data-row loop of parse_table from 0-based index k: the trimmed cells of
\* every row taken, or a panic raised by the row slice
RECURSIVE TableRows(_, _)
TableRows(ls, k) ==
  IF k >= Len(ls) THEN [panic |-> FALSE, rows |-> <<>>]
  ELSE IF ~Contains(LineAt(ls, k), "|") \/ IsBlank(LineAt(ls, k)) THEN [panic |-> FALSE, rows |-> <<>>]
  ELSE RowsCons(RowCells(LineAt(ls, k)),
                IF RowCells(LineAt(ls, k)).panic THEN [panic |-> TRUE, rows |-> <<>>]
                ELSE TableRows(ls, k + 1))

\* cut the flat list of formatted cells back into rows of the given widths
RECURSIVE Regroup(_, _)
Regroup(flat, widths) ==
  IF widths = <<>> THEN <<>>
  ELSE <<SubSeq(flat, 1, Head(widths))>> \o Regroup(SubSeq(flat, Head(widths) + 1, Len(flat)), Tail(widths))

NoBlock(cache) == [kind |-> "none", token |-> <<>>, consumed |-> 0, cache |-> cache]

PanicBlock(cache) == [kind |-> "panic", token |-> <<>>, consumed |-> 0, cache |-> cache]

\* the Table token built from the formatted header and row cells f
TableFormatted(hraw, sc, body, f) ==
  [kind |-> "some",
   token |-> [type |-> "Table",
              headers |-> SubSeq(f.outs, 1, Len(hraw)),
              rows |-> Regroup(SubSeq(f.outs, Len(hraw) + 1, Len(f.outs)),
                               [k \in 1..Len(body.rows) |-> Len(body.rows[k])]),
              alignments |-> [c \in 1..Len(sc.cells) |-> CellAlignment(sc.cells[c])]],
   consumed |-> 2 + Len(body.rows),
   cache |-> f.cache]

\* parse_table after the separator check: hc and sc are the header and separator
\* cells, hraw the non-empty trimmed header cells, body the data rows
TableBuild(d, cache, hc, hraw, sc, body) ==
  IF hc.panic THEN PanicBlock(cache)
  ELSE IF hraw = <<>> THEN NoBlock(cache)
  ELSE IF sc.panic \/ body.panic THEN PanicBlock(cache)
  ELSE TableFormatted(hraw, sc, body, FormatAll(d, cache, hraw \o Flatten(body.rows)))

NonEmpty(cells) == SelectSeq(TrimAll(cells), LAMBDA x : x # <<>>)

TableCells(d, cache, hc, sc, body) == TableBuild(d, cache, hc, NonEmpty(hc.cells), sc, body)

\* parse_table(lines, start): kind "none" (rejected), "panic" or "some"
parse_table(d, cache, ls, start) ==
  IF start + 1 >= Len(ls) THEN NoBlock(cache)
  ELSE IF ~is_table_separator(LineAt(ls, start + 1)) THEN NoBlock(cache)
  ELSE TableCells(d, cache, RowCells(LineAt(ls, start)), RowCells(LineAt(ls, start + 1)),
                  TableRows(ls, start + 2))

\* the tag test read without regard to letter case in its first tag: a reading
\* of parse_alert_type that C16 tells apart from the source's exact match
parse_alert_type_any_case(text) ==
  CASE text = TAG_NOTE -> <<"Note">>
    [] text = <<"[", "!", "n", "o", "t", "e", "]">> -> <<"Note">>
    [] text = TAG_TIP -> <<"Tip">>
    [] text = TAG_IMPORTANT -> <<"Important">>
    [] text = TAG_WARNING -> <<"Warning">>
    [] text = TAG_CAUTION -> <<"Caution">>
    [] OTHER -> <<>>

parse_alert_type(text) ==
  CASE text = TAG_NOTE -> <<"Note">>
    [] text = TAG_TIP -> <<"Tip">>
    [] text = TAG_IMPORTANT -> <<"Important">>
    [] text = TAG_WARNING -> <<"Warning">>
    [] text = TAG_CAUTION -> <<"Caution">>
    [] OTHER -> <<>>

AlertCons(piece, rest) == [raw |-> piece \o rest.raw, consumed |-> rest.consumed + 1]

\* the continuation loop of parse_alert from 0-based index k: the raw contents of
\* the "> " lines appended and the number of lines consumed
RECURSIVE AlertLoop(_, _)
AlertLine(ls, k, trimmed_line) ==
  IF StartsWith(trimmed_line, <<">", " ">>)
  THEN IF StartsWith(From(trimmed_line, 2), <<"[", "!">>) THEN [raw |-> <<>>, consumed |-> 0]
       ELSE AlertCons(<<From(trimmed_line, 2)>>, AlertLoop(ls, k + 1))
  ELSE IF Trim(trimmed_line) = <<>> THEN AlertCons(<<>>, AlertLoop(ls, k + 1))
  ELSE [raw |-> <<>>, consumed |-> 0]

AlertLoop(ls, k) ==
  IF k >= Len(ls) THEN [raw |-> <<>>, consumed |-> 0]
  ELSE AlertLine(ls, k, TrimStart(LineAt(ls, k)))

\* content.push(' ') when content is non-empty, then content.push_str(piece)
RECURSIVE AlertJoin(_, _)
AlertJoin(content, pieces) ==
  IF pieces = <<>> THEN content
  ELSE AlertJoin((IF content # <<>> THEN Append(content, " ") ELSE content) \o Head(pieces), Tail(pieces))

AlertFormatted(alert_type, first, loop, f) ==
  [kind |-> "some",
   token |-> [type |-> "Alert", alert_type |-> alert_type[1], content |-> AlertJoin(first.out, f.outs)],
   consumed |-> 1 + loop.consumed,
   cache |-> f.cache]

AlertRest(d, alert_type, first, loop) ==
  AlertFormatted(alert_type, first, loop, FormatAll(d, first.cache, loop.raw))

\* parse_alert from the text after "> ": close_bracket is the offset of the first "]"
AlertBody(d, cache, ls, start, alert_text, close_bracket) ==
  IF close_bracket = -1 THEN NoBlock(cache)
  ELSE IF parse_alert_type(SubSeq(alert_text, 1, close_bracket + 1)) = <<>> THEN NoBlock(cache)
  ELSE AlertRest(d, parse_alert_type(SubSeq(alert_text, 1, close_bracket + 1)),
                 process_inline_formatting(d, cache, Trim(From(alert_text, close_bracket + 1))),
                 AlertLoop(ls, start + 1))

AlertText(d, cache, ls, start, alert_text) ==
  AlertBody(d, cache, ls, start, alert_text, Find(alert_text, <<"]">>))

\* parse_alert(lines, start): kind "none" or "some"
parse_alert(d, cache, ls, start) ==
  IF ~StartsWith(TrimStart(LineAt(ls, start)), <<">", " ", "[", "!">>) THEN NoBlock(cache)
  ELSE AlertText(d, cache, ls, start, From(TrimStart(LineAt(ls, start)), 2))

(***************************************************************************)
(* The scan loop of parse(): which rule takes the line at position k.      *)
(***************************************************************************)
\* the table attempt of the extended parse(): made only for a potential table
\* line that has a line after it
TableTry(d, cache, ls, k) ==
  IF d = "gfm" /\ is_potential_table_line(TrimEnd(LineAt(ls, k))) /\ k + 1 < Len(ls)
  THEN parse_table(d, cache, ls, k)
  ELSE NoBlock(cache)

\* the alert attempt of the extended parse() on a "> " line
AlertTry(d, cache, ls, k) ==
  IF d = "gfm" THEN parse_alert(d, cache, ls, k) ELSE NoBlock(cache)

\* the first rule of the loop body that applies to the line at k, in the order
\* the source tries them
BlockRule(d, cache, ls, k) ==
  LET line == TrimEnd(LineAt(ls, k))
  IN IF Trim(line) = <<>> THEN "blank"
     ELSE IF StartsWith(line, FENCE) THEN "code"
     ELSE IF TableTry(d, cache, ls, k).kind # "none" THEN "table"
     ELSE IF parse_heading(line) # <<>> THEN "heading"
     ELSE IF is_horizontal_rule(line) THEN "hr"
     ELSE IF is_list_line(d, line) THEN "list"
     ELSE IF StartsWith(TrimStart(line), <<">", " ">>)
       THEN (IF AlertTry(d, cache, ls, k).kind = "some" THEN "alert" ELSE "quote")
     ELSE "paragraph"

(***************************************************************************)
(* Rendering: the for token in tokens loop of parse_*_markdown_to_html.  *)
(***************************************************************************)
\* count_words: the number of maximal runs of non-whitespace bytes
count_words(text) ==
  Cardinality({k \in 1..Len(text) : text[k] \notin WS /\ (k = 1 \/ text[k - 1] \in WS)})

DigitChar == <<"1", "2", "3", "4", "5", "6", "7", "8", "9">>

\* get_alert_config: (class, icon, title); the icon is one opaque glyph
get_alert_config(alert_type) ==
  CASE alert_type = "Note" ->
         [class |-> <<"n", "o", "t", "e">>, icon |-> <<"icon-note">>, title |-> <<"N", "o", "t", "e">>]
    [] alert_type = "Tip" ->
         [class |-> <<"t", "i", "p">>, icon |-> <<"icon-tip">>, title |-> <<"T", "i", "p">>]
    [] alert_type = "Important" ->
         [class |-> <<"i", "m", "p", "o", "r", "t", "a", "n", "t">>, icon |-> <<"icon-important">>,
          title |-> <<"I", "m", "p", "o", "r", "t", "a", "n", "t">>]
    [] alert_type = "Warning" ->
         [class |-> <<"w", "a", "r", "n", "i", "n", "g">>, icon |-> <<"icon-warning">>,
          title |-> <<"W", "a", "r", "n", "i", "n", "g">>]
    [] alert_type = "Caution" ->
         [class |-> <<"c", "a", "u", "t", "i", "o", "n">>, icon |-> <<"icon-caution">>,
          title |-> <<"C", "a", "u", "t", "i", "o", "n">>]

get_align_style(alignments, index) ==
  LET a == IF index < Len(alignments) THEN alignments[index + 1] ELSE "None"
  IN CASE a = "Left" -> STYLE_LEFT
       [] a = "Center" -> STYLE_CENTER
       [] a = "Right" -> STYLE_RIGHT
       [] OTHER -> <<>>

\* render_gfm_list_items from item k on: current_level and the depth of level_stack
RECURSIVE GfmListItems(_, _, _, _)
GfmListItems(items, k, current_level, depth) ==
  IF k > Len(items) THEN Flatten([n \in 1..depth |-> UL_CLOSE])
  ELSE LET item == items[k]
           up == IF current_level < item.level THEN item.level - current_level ELSE 0
           down == IF current_level > item.level
                   THEN (IF current_level - item.level < depth THEN current_level - item.level ELSE depth)
                   ELSE 0
           box == IF item.checked = <<>> THEN <<>>
                  ELSE IF item.checked[1] THEN CHECKBOX_ON ELSE CHECKBOX_OFF
       IN Flatten([n \in 1..up |-> UL_OPEN]) \o Flatten([n \in 1..down |-> UL_CLOSE])
            \o LI_OPEN \o box \o item.content \o LI_CLOSE
            \o GfmListItems(items, k + 1, current_level + up - down, depth + up - down)

\* a renderer that ignores the levels and emits the items side by side: a
\* reading that C23 tells apart from the source's level stack
render_gfm_list_items_flat(items) ==
  Flatten([k \in 1..Len(items) |-> LI_OPEN \o items[k].content \o LI_CLOSE])

render_gfm_list_items(items) ==
  IF items = <<>> THEN <<>> ELSE GfmListItems(items, 1, items[1].level, 0)

\* render_basic_list_items from item k on: current_level and the depth of stack
RECURSIVE BasicListItems(_, _, _, _)
BasicListItems(items, k, current_level, depth) ==
  IF k > Len(items) THEN LI_CLOSE \o Flatten([n \in 1..depth |-> UL_CLOSE])
  ELSE LET item == items[k]
           up == IF item.level > current_level THEN item.level - current_level ELSE 0
           down == IF item.level < current_level THEN current_level - item.level ELSE 0
           popped == IF down < depth THEN down ELSE depth
           closing == Flatten([n \in 1..down |-> LI_CLOSE \o (IF n <= depth THEN UL_CLOSE ELSE <<>>)])
       IN (IF up > 0 THEN Flatten([n \in 1..up |-> UL_OPEN])
           ELSE IF down > 0 THEN closing
           ELSE IF k > 1 THEN LI_CLOSE ELSE <<>>)
            \o LI_OPEN \o item.content
            \o BasicListItems(items, k + 1, item.level, depth + up - popped)

render_basic_list_items(items) ==
  IF items = <<>> THEN <<>> ELSE BasicListItems(items, 1, 0, 0)

\* the sum of count_words over a sequence of texts
RECURSIVE SumWords(_)
SumWords(texts) == IF texts = <<>> THEN 0 ELSE count_words(Head(texts)) + SumWords(Tail(texts))

\* the words parse_*_markdown_to_html adds for one token
TokenWords(tok) ==
  CASE tok.type = "Heading" -> count_words(tok.text)
    [] tok.type = "Paragraph" -> count_words(tok.text)
    [] tok.type = "CodeBlock" -> count_words(tok.code)
    [] tok.type = "List" -> SumWords([k \in 1..Len(tok.items) |-> tok.items[k].content])
    [] tok.type = "Table" -> SumWords(tok.headers \o Flatten(tok.rows))
    [] tok.type = "Blockquote" -> count_words(tok.text)
    [] tok.type = "Alert" -> count_words(tok.content)
    [] tok.type = "HorizontalRule" -> 0

\* the html parse_*_markdown_to_html pushes for one token
TokenHtml(d, tok) ==
  CASE tok.type = "Heading" ->
         H_OPEN \o <<DigitChar[tok.level]>> \o TAG_END \o tok.text \o H_CLOSE \o <<DigitChar[tok.level]>> \o TAG_END
    [] tok.type = "Paragraph" -> P_OPEN \o tok.text \o P_CLOSE
    [] tok.type = "CodeBlock" ->
         IF tok.language # <<>>
         THEN PRE_LANG_OPEN \o tok.language[1] \o PRE_LANG_MID \o tok.code \o PRE_CLOSE
         ELSE PRE_OPEN \o tok.code \o PRE_CLOSE
    [] tok.type = "List" ->
         (IF tok.ordered THEN OL_OPEN ELSE UL_OPEN)
           \o (IF d = "gfm" THEN render_gfm_list_items(tok.items) ELSE render_basic_list_items(tok.items))
           \o (IF tok.ordered THEN OL_CLOSE ELSE UL_CLOSE)
    [] tok.type = "Table" ->
         TABLE_OPEN \o THEAD_OPEN
           \o Flatten([c \in 1..Len(tok.headers) |->
                 TH_OPEN \o get_align_style(tok.alignments, c - 1) \o TAG_END \o tok.headers[c] \o TH_CLOSE])
           \o THEAD_CLOSE
           \o (IF tok.rows # <<>>
               THEN TBODY_OPEN
                      \o Flatten([n \in 1..Len(tok.rows) |->
                            TR_OPEN
                              \o Flatten([c \in 1..Len(tok.rows[n]) |->
                                    TD_OPEN \o get_align_style(tok.alignments, c - 1) \o TAG_END
                                      \o tok.rows[n][c] \o TD_CLOSE])
                              \o TR_CLOSE])
                      \o TBODY_CLOSE
               ELSE <<>>)
           \o TABLE_CLOSE
    [] tok.type = "Blockquote" -> BQ_OPEN \o tok.text \o BQ_CLOSE
    [] tok.type = "Alert" ->
         LET cfg == get_alert_config(tok.alert_type)
         IN ALERT_A \o cfg.class \o ALERT_B \o cfg.icon \o ALERT_C \o cfg.title \o ALERT_D
              \o tok.content \o ALERT_E
    [] tok.type = "HorizontalRule" -> <<"<", "h", "r", ">">>

(***************************************************************************)
(* Input documents.                                                        *)
(***************************************************************************)
MaxLines == 3

MaxHashes == 7

MaxDigits == 5

MaxIndent == 4

MaxText == 4

\* all sequences over S of length lo..hi
SeqsOf(S, lo, hi) == UNION {[1..n -> S] : n \in lo..hi}

Rep(c, n) == [k \in 1..n |-> c]

\* lines that start, fill, close or follow blocks
BlockLines ==
  { <<>>,
    FENCE,
    <<BT, BT, BT, "x">>,
    <<"<", "&", ">">>,
    <<"a", " ", "b">>,
    <<"#", " ", "a", "|", "b">>,
    <<"a", "|", "b">>,
    <<"-", "|", "-">>,
    <<"|">>,
    <<"-", " ", "a">> }

BlockDocs == SeqsOf(BlockLines, 0, MaxLines)

\* one-line documents: a run of "#", an optional separator, an optional text
HeadingDocs ==
  { <<Rep("#", n) \o sep \o text>> :
      n \in 0..MaxHashes,
      sep \in {<<>>, <<" ">>, <<"a">>, <<"\t">>},
      text \in {<<>>, <<"a">>, <<"T", "i", "t", "l", "e">>, <<"D", "e", "e", "p">>, <<" ", "#">>} }

\* one-line documents: indentation, a list marker candidate, a text
Ordinals == {Rep("1", n) \o <<".">> : n \in 1..MaxDigits}

Bullets == {<<"-">>, <<"*">>, <<"+">>}

MarkerDocs ==
  { <<Rep(" ", n) \o m \o sep \o <<"a">>>> :
      n \in {0, 2}, m \in Ordinals \cup Bullets \cup {<<"a", ".">>}, sep \in {<<>>, <<" ">>} }

\* list runs: every line a bullet item at some indentation, or blank
LevelLines == {Rep(" ", n) \o <<"-", " ", "a">> : n \in 0..MaxIndent} \cup {<<"\t", "-", " ", "a">>, <<>>}

LevelDocs == SeqsOf(LevelLines, 1, MaxLines)

\* two items with a blank line between them, then a paragraph
RunDoc == << <<"-", " ", "a">>, <<>>, <<"-", " ", "b">>, <<"c">> >>

\* items at indentation 0, 2, 2, 4
StairDoc == [k \in 1..4 |-> Rep(" ", <<0, 2, 2, 4>>[k]) \o <<"-", " ", "a">>]

\* one-line documents of free inline text, bare or as heading / quote / item
InlineAlphabet == {"*", "_", BT, "a", "<"}

Words == {<<"a">>, <<"a", " ", "b">>}

Openers == {<<"*">>, <<"*", "*">>, <<"_">>, <<"_", "_">>, <<"~", "~">>, <<BT>>}

\* a word wrapped in a delimiter pair, closed or left open, with a tail
WrappedTexts ==
  { o \o w \o c \o tail :
      o \in Openers, w \in Words, c \in Openers \cup {<<>>}, tail \in {<<>>, <<" ", "c">>} }

\* link and image candidates, well-formed or cut short
LinkTexts ==
  { bang \o <<"[">> \o w \o close \o url \o tail :
      bang \in {<<>>, <<"!">>},
      w \in Words,
      close \in {<<>>, <<"]">>},
      url \in {<<>>, <<"(", "u", ")">>, <<"(", "u">>, <<" ", "(", "u", ")">>},
      tail \in {<<>>, <<" ", "c">>} }

InlineTexts == SeqsOf(InlineAlphabet, 1, MaxText) \cup WrappedTexts \cup LinkTexts \cup Words

InlineDocs ==
  { <<prefix \o text>> :
      prefix \in {<<>>, <<"#", " ">>, <<">", " ">>, <<"-", " ">>},
      text \in InlineTexts }

\* blockquote and alert runs
QuoteLines ==
  { <<>>,
    <<">", " ">> \o TAG_NOTE,
    <<">", " ">> \o TAG_WARNING \o <<" ", "a">>,
    <<">", " ", "[", "!", "N", "O", "P", "E", "]">>,
    <<">", " ", "[", "!", "n", "o", "t", "e", "]">>,
    <<">", " ", "c", "a", "r", "e", "f", "u", "l">>,
    <<">", "b">>,
    <<"-", "-", "-">> }

QuoteDocs == SeqsOf(QuoteLines, 1, MaxLines)

\* tables: a header row, a separator candidate and at most one data row
HeaderLines ==
  { <<"a", "|", "b">>, <<"|", "A", "|", "B", "|">>, <<"|", "a", "|", "b">>,
    <<"a", "|", "b", "|">>, <<"a", "|", "|", "b">> }

SeparatorLines ==
  { <<"-", "|", "-">>, <<"|", ":", "-", "-", "|", "-", "-", ":", "|">>, <<":", "|", "-">>,
    <<":", "-", ":", "|", "-">>, <<"-", "|", "-", "|", "-">>, <<"|", "-", "|", "-">>,
    <<"-", "|", "-", "|", " ">>, <<"a", "|", "-">>, <<"|", "|", "|">>, <<":", "|", ":">> }

RowLines ==
  { <<"|", "1", "|", "2", "|">>, <<"|", "1", "|", "2">>, <<"1", "|", "2", "|">>,
    <<"|", "1", "|", "2", "|", " ">>, <<"1", "|", "2">>, <<"1">> }

TableDocs ==
  {<<h, s>> : h \in HeaderLines, s \in SeparatorLines}
    \cup {<<h, s, w>> : h \in HeaderLines, s \in SeparatorLines, w \in RowLines}

\* alerts: a blockquote line opening with a tag, a near-tag or plain text, alone
\* or followed by one continuation line
AlertHeads ==
  { <<">", " ">> \o TAG_NOTE, <<">", " ">> \o TAG_TIP, <<">", " ">> \o TAG_IMPORTANT,
    <<">", " ">> \o TAG_WARNING, <<">", " ">> \o TAG_CAUTION,
    <<" ", ">", " ">> \o TAG_TIP \o <<"x">>,
    <<">", " ", "[", "!", "W", "a", "r", "n", "i", "n", "g", "]">>,
    <<">", " ", "[", "!", "N", "O", "T", "E">>,
    <<">", " ", "[", "!", "N", "O", "T", "E", " ", "]">>,
    <<">", " ", "[", "!", "]">>,
    <<">", " ", " ">> \o TAG_NOTE,
    <<">", " ", "x">> \o TAG_NOTE }

AlertDocs ==
  {<<h>> : h \in AlertHeads}
    \cup {<<h, <<">", " ", "c", "a", "r", "e", "f", "u", "l">> >> : h \in AlertHeads}

\* task lists: list lines with and without a task-list prefix, one or two to a
\* document
TaskLines ==
  { <<"-", " ", "[", " ", "]", " ", "a">>,
    <<"-", " ", "[", "x", "]", " ", "a">>,
    <<"-", " ", "[", "X", "]", " ", "b">>,
    <<"-", " ", "[", "y", "]", " ", "a">>,
    <<"-", " ", "[", " ", "]">>,
    <<"1", ".", " ", "[", "x", "]", " ", "b">>,
    <<"1", ".", " ", "a">>,
    <<"-", " ", "[", " ", "a">>,
    <<"-", " ", " ", "[", " ", "]", " ", "a">>,
    <<"-", " ", "a", "[", " ", "]">>,
    <<" ", " ", "+", " ", "[", "x", "]">> }

TaskDocs == SeqsOf(TaskLines, 1, 2)

\* spans and links whose content is as long as the formatter's caps, or one longer
CapSpans ==
  { o \o Rep("a", n) \o o :
      o \in Openers,
      n \in {GfmMaxSingle, GfmMaxSingle + 1, GfmMaxDouble, GfmMaxDouble + 1} }

CapLinks ==
  { <<"[">> \o Rep("a", n) \o <<"]", "(", "u", ")">> :
      n \in {BasicMaxLinkText, BasicMaxLinkText + 1, GfmMaxLinkText, GfmMaxLinkText + 1} }
    \cup { <<"[", "a", "]", "(">> \o Rep("u", n) \o <<")">> :
             n \in {BasicMaxUrl, BasicMaxUrl + 1, GfmMaxUrl, GfmMaxUrl + 1} }

CapDocs == {<<t>> : t \in CapSpans \cup CapLinks}

\* a fence with a language tag, two code lines and the closing fence
FenceDocs ==
  { <<FENCE \o <<"x">>, a, b, FENCE>> : a, b \in {<<>>, <<"a">>, <<" ", "b", "<">>} }

\* the texts of the formatting examples
BoldItalicLine ==
  << "*", "*", "b", "o", "l", "d", "*", "*", " ", "a", "n", "d", " ", "*", "i", "t", "a", "l",
     "i", "c", "*" >>

HelloLine ==
  << "#", " ", "H", "e", "l", "l", "o", " ", "W", "o", "r", "l", "d" >>

BoldTextLine ==
  << "T", "h", "i", "s", " ", "i", "s", " ", "a", " ", "*", "*", "b", "o", "l", "d", "*", "*",
     " ", "t", "e", "x", "t", "." >>

\* a heading, a blank line and a paragraph that holds a bold span
HelloDoc == <<HelloLine, <<>>, BoldTextLine>>

ExampleDocs == {<<BoldItalicLine>>, HelloDoc}

Docs ==
  BlockDocs \cup HeadingDocs \cup MarkerDocs \cup LevelDocs \cup InlineDocs \cup QuoteDocs
    \cup TableDocs \cup AlertDocs \cup TaskDocs \cup CapDocs \cup {RunDoc, StairDoc} \cup ExampleDocs
    \cup FenceDocs

(***************************************************************************)
(* The entry point parse_gfm_markdown_to_html / parse_basic_markdown_to_html *)
(* as a state machine: a fresh parser, the scan loop of parse() one         *)
(* iteration per step, the render loop one token per step, the return.      *)
(***************************************************************************)
Init ==
  /\ dialect \in Dialects
  /\ lines \in Docs
  /\ pc = "start"
  /\ i = 0
  /\ tokens = <<>>
  /\ html_cache = EmptyCache
  /\ r = 0
  /\ html = <<>>
  /\ word_count = 0
  /\ result = <<>>
  /\ TabManagerNew

\* parse() without its is_empty test: the empty input goes into the scan loop;
\* a reading that C22 tells apart from the source's early return
ParseEmptyScanned ==
  /\ pc = "start"
  /\ lines = <<>>
  /\ pc' = "scan"
  /\ UNCHANGED <<tab_vars, dialect, lines, i, tokens, html_cache, r, html, word_count, result>>

\* parse(): if markdown.is_empty() { return Vec::new(); }
ParseEmpty ==
  /\ pc = "start"
  /\ lines = <<>>
  /\ pc' = "render"
  /\ UNCHANGED <<tab_vars, dialect, lines, i, tokens, html_cache, r, html, word_count, result>>

\* parse(): the cache trim before the scan; which entries go is up to the
\* iteration order of the HashMap
ParseBegin ==
  /\ pc = "start"
  /\ lines # <<>>
  /\ LET above == IF dialect = "gfm" THEN GfmEvictAbove ELSE BasicEvictAbove
         target_size == CacheLen(html_cache) \div 2
     IN IF CacheLen(html_cache) > above
        THEN \E gone \in SUBSET (DOMAIN html_cache) :
               /\ Cardinality(gone) = target_size
               /\ html_cache' = [k \in (DOMAIN html_cache) \ gone |-> html_cache[k]]
        ELSE html_cache' = html_cache
  /\ pc' = "scan"
  /\ UNCHANGED <<tab_vars, dialect, lines, i, tokens, r, html, word_count, result>>

Scanning == pc = "scan" /\ i < Len(lines)

Rule == BlockRule(dialect, html_cache, lines, i)

Line == TrimEnd(LineAt(lines, i))

SkipBlank ==
  /\ Scanning /\ Rule = "blank"
  /\ i' = i + 1
  /\ UNCHANGED <<tab_vars, dialect, lines, pc, tokens, html_cache, r, html, word_count, result>>

CodeBlockRule ==
  /\ Scanning /\ Rule = "code"
  /\ LET p == parse_code_block(lines, i)
     IN tokens' = Append(tokens, p.token) /\ i' = i + p.consumed
  /\ UNCHANGED <<tab_vars, dialect, lines, pc, html_cache, r, html, word_count, result>>

TableRule ==
  /\ Scanning /\ Rule = "table"
  /\ LET p == TableTry(dialect, html_cache, lines, i)
     IN /\ p.kind = "some"
        /\ tokens' = Append(tokens, p.token)
        /\ i' = i + p.consumed
        /\ html_cache' = p.cache
  /\ UNCHANGED <<tab_vars, dialect, lines, pc, r, html, word_count, result>>

\* parse_table panics on a row slice: the call never returns
TablePanic ==
  /\ Scanning /\ Rule = "table"
  /\ TableTry(dialect, html_cache, lines, i).kind = "panic"
  /\ pc' = "panic"
  /\ UNCHANGED <<tab_vars, dialect, lines, i, tokens, html_cache, r, html, word_count, result>>

HeadingRule ==
  /\ Scanning /\ Rule = "heading"
  /\ tokens' = Append(tokens, parse_heading(Line)[1])
  /\ i' = i + 1
  /\ UNCHANGED <<tab_vars, dialect, lines, pc, html_cache, r, html, word_count, result>>

HorizontalRule ==
  /\ Scanning /\ Rule = "hr"
  /\ tokens' = Append(tokens, [type |-> "HorizontalRule"])
  /\ i' = i + 1
  /\ UNCHANGED <<tab_vars, dialect, lines, pc, html_cache, r, html, word_count, result>>

ListRule ==
  /\ Scanning /\ Rule = "list"
  /\ LET p == parse_list(dialect, html_cache, lines, i)
     IN /\ tokens' = Append(tokens, p.token)
        /\ i' = i + p.consumed
        /\ html_cache' = p.cache
  /\ UNCHANGED <<tab_vars, dialect, lines, pc, r, html, word_count, result>>

AlertRule ==
  /\ Scanning /\ Rule = "alert"
  /\ LET p == AlertTry(dialect, html_cache, lines, i)
     IN /\ tokens' = Append(tokens, p.token)
        /\ i' = i + p.consumed
        /\ html_cache' = p.cache
  /\ UNCHANGED <<tab_vars, dialect, lines, pc, r, html, word_count, result>>

BlockquoteRule ==
  /\ Scanning /\ Rule = "quote"
  /\ LET f == process_inline_formatting(dialect, html_cache, From(TrimStart(Line), 2))
     IN /\ tokens' = Append(tokens, [type |-> "Blockquote", text |-> f.out])
        /\ html_cache' = f.cache
  /\ i' = i + 1
  /\ UNCHANGED <<tab_vars, dialect, lines, pc, r, html, word_count, result>>

ParagraphRule ==
  /\ Scanning /\ Rule = "paragraph"
  /\ LET f == process_inline_formatting(dialect, html_cache, Line)
     IN /\ tokens' = Append(tokens, [type |-> "Paragraph", text |-> f.out])
        /\ html_cache' = f.cache
  /\ i' = i + 1
  /\ UNCHANGED <<tab_vars, dialect, lines, pc, r, html, word_count, result>>

\* the scan loop ends: parse() returns the tokens
ScanEnd ==
  /\ pc = "scan" /\ i >= Len(lines)
  /\ pc' = "render"
  /\ UNCHANGED <<tab_vars, dialect, lines, i, tokens, html_cache, r, html, word_count, result>>

\* one iteration of for token in tokens
RenderToken ==
  /\ pc = "render" /\ r < Len(tokens)
  /\ html' = html \o TokenHtml(dialect, tokens[r + 1])
  /\ word_count' = word_count + TokenWords(tokens[r + 1])
  /\ r' = r + 1
  /\ UNCHANGED <<tab_vars, dialect, lines, pc, i, tokens, html_cache, result>>

\* Ok(ParseResult { html, word_count, error: None })
Return ==
  /\ pc = "render" /\ r = Len(tokens)
  /\ result' = <<[html |-> html, word_count |-> word_count, error |-> <<>>]>>
  /\ pc' = "done"
  /\ UNCHANGED <<tab_vars, dialect, lines, i, tokens, html_cache, r, html, word_count>>

Next ==
  \/ ParseEmpty \/ ParseBegin
  \/ SkipBlank \/ CodeBlockRule \/ TableRule \/ TablePanic \/ HeadingRule \/ HorizontalRule
  \/ ListRule \/ AlertRule \/ BlockquoteRule \/ ParagraphRule
  \/ ScanEnd \/ RenderToken \/ Return

Spec == Init /\ [][Next]_vars

\* the call is under way: neither returned nor aborted
Running == pc \notin {"done", "panic"}

\* parse() and the rendering loop are plain sequential code, so a step that can
\* be taken is taken: weak fairness of Next, WF_vars(Next), with
\* ENABLED <<Next>>_vars written as the state predicate it amounts to (in every
\* Running state exactly one action of Next can be taken, and it changes pc, i
\* or r; in the other states none can)
FairSpec == Spec /\ (<>[]Running => []<><<Next>>_vars)

(***************************************************************************)
(* One parser instance used for several parse() calls: the cache made by   *)
(* one call is there for the next.                                         *)
(***************************************************************************)
\* the documents of the calls: one per block rule, over two texts with one digest
CallDocs ==
  { <<>>,
    << <<"A", "a">> >>,
    << <<"B", "B">> >>,
    << <<>>, <<"A", "a">> >>,
    << FENCE >>,
    << <<"A", "a", "|", "B", "B">>, <<"-", "|", "-">> >>,
    << <<"A", "a", "|", "B", "B">>, <<"-", "|", "-">>, <<"|">> >>,
    << <<"#", " ", "A", "a">> >>,
    << <<"-", "-", "-">> >>,
    << <<"-", " ", "B", "B">> >>,
    << <<">", " ">> \o TAG_NOTE, <<">", " ", "B", "B">> >>,
    << <<">", " ", "A", "a">> >> }

CallInit ==
  /\ dialect \in Dialects
  /\ lines \in CallDocs
  /\ pc = "start"
  /\ i = 0
  /\ tokens = <<>>
  /\ html_cache = EmptyCache
  /\ r = 0
  /\ html = <<>>
  /\ word_count = 0
  /\ result = <<>>
  /\ TabManagerNew

\* the next parse() call on the instance, after the cache was cleared
\* (GfmMarkdownParser::new() gives such a cache) or with the cache as it is
NextCall ==
  /\ pc = "done"
  /\ \E doc \in CallDocs, cleared \in BOOLEAN :
       /\ lines' = doc
       /\ html_cache' = IF cleared THEN EmptyCache ELSE html_cache
  /\ pc' = "start"
  /\ i' = 0
  /\ tokens' = <<>>
  /\ r' = 0
  /\ html' = <<>>
  /\ word_count' = 0
  /\ result' = <<>>
  /\ UNCHANGED <<tab_vars, dialect>>

CallNext == Next \/ NextCall

CallSpec == CallInit /\ [][CallNext]_vars

(***************************************************************************)
(* A call on an instance whose cache earlier calls have filled.            *)
(***************************************************************************)
\* the lines of an earlier document: "!" and two letters, all through the
\* formatter's character loop, all with different digests
PriorLetters ==
  <<"a", "b", "c", "d", "e", "f", "g", "h", "i", "j", "k", "l", "m", "n", "o", "p">>

PriorText(k) ==
  <<"!", PriorLetters[((k - 1) \div Len(PriorLetters)) + 1], PriorLetters[((k - 1) % Len(PriorLetters)) + 1]>>

\* the cache an instance holds after a parse() of a document made of the
\* first n such lines: each line is a miss and, up to the sizes used here, is
\* stored under its digest
PriorCache(d, n) ==
  [h \in {hash_string(PriorText(k)) : k \in 1..n} |->
     FormatInline(d, PriorText(CHOOSE k \in 1..n : hash_string(PriorText(k)) = h))]

\* the sizes the cache is started with: empty, one below the size at which
\* parse() trims it, and that size
PriorCaches(d) ==
  {PriorCache(d, n) : n \in {0, (IF d = "gfm" THEN GfmEvictAbove ELSE BasicEvictAbove) - 1,
                             IF d = "gfm" THEN GfmEvictAbove ELSE BasicEvictAbove}}

\* documents of lines not formatted before, with and without markup
CacheDocs ==
  CallDocs
    \cup { << <<"*", "x", "*">> >>,
           << <<"*", "x", "*">>, <<"*", "y", "*">>, <<"!", "z">> >>,
           << <<"x">>, <<"y">>, <<"z">> >>,
           << <<"!", "a", "a">>, <<"*", "x", "*">> >> }

CacheInit ==
  /\ dialect \in Dialects
  /\ lines \in CacheDocs
  /\ html_cache \in PriorCaches(dialect)
  /\ pc = "start"
  /\ i = 0
  /\ tokens = <<>>
  /\ r = 0
  /\ html = <<>>
  /\ word_count = 0
  /\ result = <<>>
  /\ TabManagerNew

CacheSpec == CacheInit /\ [][Next]_vars

\* parse() as one function of the document and the cache it starts with:
\* ScanStep is one turn of its loop at index k, ParseFrom the loop from k on
ScanStep(d, cache, ls, k) ==
  LET rule == BlockRule(d, cache, ls, k)
      line == TrimEnd(LineAt(ls, k))
  IN CASE rule = "blank" -> [kind |-> "some", tokens |-> <<>>, consumed |-> 1, cache |-> cache]
       [] rule = "code" ->
            [kind |-> "some", tokens |-> <<parse_code_block(ls, k).token>>,
             consumed |-> parse_code_block(ls, k).consumed, cache |-> cache]
       [] rule = "table" ->
            LET p == TableTry(d, cache, ls, k)
            IN IF p.kind = "panic" THEN [kind |-> "panic", tokens |-> <<>>, consumed |-> 0, cache |-> cache]
               ELSE [kind |-> "some", tokens |-> <<p.token>>, consumed |-> p.consumed, cache |-> p.cache]
       [] rule = "heading" ->
            [kind |-> "some", tokens |-> <<parse_heading(line)[1]>>, consumed |-> 1, cache |-> cache]
       [] rule = "hr" ->
            [kind |-> "some", tokens |-> <<[type |-> "HorizontalRule"]>>, consumed |-> 1, cache |-> cache]
       [] rule = "list" ->
            LET p == parse_list(d, cache, ls, k)
            IN [kind |-> "some", tokens |-> <<p.token>>, consumed |-> p.consumed, cache |-> p.cache]
       [] rule = "alert" ->
            LET p == AlertTry(d, cache, ls, k)
            IN [kind |-> "some", tokens |-> <<p.token>>, consumed |-> p.consumed, cache |-> p.cache]
       [] rule = "quote" ->
            LET f == process_inline_formatting(d, cache, From(TrimStart(line), 2))
            IN [kind |-> "some", tokens |-> <<[type |-> "Blockquote", text |-> f.out]>>,
                consumed |-> 1, cache |-> f.cache]
       [] OTHER ->
            LET f == process_inline_formatting(d, cache, line)
            IN [kind |-> "some", tokens |-> <<[type |-> "Paragraph", text |-> f.out]>>,
                consumed |-> 1, cache |-> f.cache]

RECURSIVE ParseFrom(_, _, _, _, _)
ParseNext(d, ls, k, acc, step) ==
  IF step.kind = "panic" THEN [kind |-> "panic", tokens |-> acc, cache |-> step.cache]
  ELSE ParseFrom(d, step.cache, ls, k + step.consumed, acc \o step.tokens)

ParseFrom(d, cache, ls, k, acc) ==
  IF k >= Len(ls) THEN [kind |-> "some", tokens |-> acc, cache |-> cache]
  ELSE ParseNext(d, ls, k, acc, ScanStep(d, cache, ls, k))

(***************************************************************************)
(* The statements of the specification, each as a property of Spec.        *)
(***************************************************************************)
Last(s) == s[Len(s)]

\* C1: for every input document and for both dialects the entry point never
\* aborts part-way through (no panic), and the result it returns carries
\* error = None.
C1_NeverAborts ==
  /\ pc # "panic"
  /\ pc = "done" => (Len(result) = 1 /\ result[1].error = <<>>)

\* C2: when the fence opened at the scan position has no later line that trims
\* to exactly three backticks, the code block token consumes every remaining
\* line: the scan position moves to the end of the input, so the code block is
\* the last token and no remaining line is tokenized a second time.
C2_UnterminatedFenceConsumesRest ==
  [][ (CodeBlockRule /\ \A k \in (i + 2)..Len(lines) : Trim(lines[k]) # FENCE)
        => (i' = Len(lines) /\ Last(tokens').type = "CodeBlock") ]_vars

\* the delimiters that open a span in dialect d
OpenersOf(d) == IF d = "gfm" THEN Openers ELSE {<<"*">>, <<"*", "*">>, <<BT>>}

\* text t begins with the opening delimiter o and holds no closing o after it
UnmatchedOpener(d, t, o) ==
  /\ o \in OpenersOf(d)
  /\ StartsWith(t, o)
  /\ Len(o) = 1 => ~StartsWith(t, o \o o)
  /\ Find(From(t, Len(o)), o) = -1

\* C3: when a paragraph's text begins with an opening delimiter that has no
\* closing delimiter, the formatter emits exactly the opening characters and
\* resumes right after them: the output is the opener followed by the
\* formatter's output for the rest of the text.
C3_UnmatchedOpenerKeepsRest ==
  [][ ParagraphRule =>
        \A o \in Openers :
          UnmatchedOpener(dialect, Line, o) =>
            Last(tokens').text = o \o FormatInline(dialect, From(Line, Len(o))) ]_vars

\* C4: the text field of every token the tokenizer emits is the inline
\* formatter's output for the raw text; in particular the text of a Heading
\* token is already inline-formatted.
C4_TextFieldsAreFormatted ==
  [][ /\ HeadingRule =>
           Last(tokens').text = FormatInline(dialect, Trim(From(Line, Last(tokens').level)))
      /\ ParagraphRule => Last(tokens').text = FormatInline(dialect, Line)
      /\ BlockquoteRule => Last(tokens').text = FormatInline(dialect, From(TrimStart(Line), 2)) ]_vars

\* C5: in each dialect's pipeline a CodeBlock token is rendered as its raw
\* code HTML-escaped inside <pre><code>: each of & < > " ' of the code reaches
\* the html only as its entity.
C5_CodeBlockEscaped ==
  [][ (RenderToken /\ tokens[r + 1].type = "CodeBlock") =>
        html' = html
                  \o (IF tokens[r + 1].language # <<>>
                      THEN PRE_LANG_OPEN \o tokens[r + 1].language[1] \o PRE_LANG_MID
                      ELSE PRE_OPEN)
                  \o escape_html(tokens[r + 1].code) \o PRE_CLOSE ]_vars

\* the word w wrapped in emphasis, strong emphasis, a link or an image
Marked(w) ==
  { <<"*">> \o w \o <<"*">>,
    <<"*", "*">> \o w \o <<"*", "*">>,
    <<"[">> \o w \o <<"]", "(", "u", ")">>,
    <<"!", "[">> \o w \o <<"]", "(", "u", ")">> }

\* C6: the reported word count is that of the textual content and does not
\* depend on markup: a one-paragraph document holding a text wrapped in
\* emphasis, a link or an image counts the words of the text alone.
C6_WordCountIgnoresMarkup ==
  pc = "done" =>
    \A w \in Words : \A m \in Marked(w) : lines = <<m>> => word_count = count_words(w)

\* C7: in every List token the first item has level 0, every level is
\* non-negative and each item's level is at most one above the level of the
\* item before it.
C7_ListLevelsStairStep ==
  \A t \in 1..Len(tokens) :
    tokens[t].type = "List" =>
      /\ tokens[t].items[1].level = 0
      /\ \A k \in 1..Len(tokens[t].items) : tokens[t].items[k].level >= 0
      /\ \A k \in 2..Len(tokens[t].items) :
           tokens[t].items[k].level <= tokens[t].items[k - 1].level + 1

\* C8: the extended tokenizer tries the heading rule right after the fenced
\* code rule and before the table rule: a line at the scan position that is
\* a valid heading is emitted as a Heading token, also when it contains "|"
\* and a valid separator row follows it.
C8_HeadingBeforeTable ==
  [][ (/\ Scanning /\ dialect = "gfm"
       /\ ~IsBlank(Line) /\ ~StartsWith(Line, FENCE)
       /\ parse_heading(Line) # <<>>
       /\ pc' # "panic")
        => (Len(tokens') = Len(tokens) + 1 /\ Last(tokens').type = "Heading") ]_vars

\* the length of the run of "#" that line begins with
HashRun(line) ==
  CHOOSE n \in 0..Len(line) :
    /\ \A k \in 1..n : line[k] = "#"
    /\ n < Len(line) => line[n + 1] # "#"

\* line begins with a run of one to six "#", then a space, then a text that
\* is not empty after trimming
HeadingShape(line) ==
  /\ HashRun(line) \in 1..6
  /\ HashRun(line) < Len(line)
  /\ line[HashRun(line) + 1] = " "
  /\ Trim(From(line, HashRun(line))) # <<>>

\* C9: the line at the scan position is tokenized as Heading of level n if
\* and only if it begins with a run of exactly n "#", 1 <= n <= 6, then a
\* space, then a non-empty text; every heading level is in 1..6; "# Title"
\* renders as <h1>Title</h1> and "###### Deep" as <h6>Deep</h6>.
C9_HeadingIffHashRun ==
  [][ /\ (Scanning /\ ~IsBlank(Line) /\ ~StartsWith(Line, FENCE) /\ i' # i) =>
           /\ HeadingShape(Line) <=> Last(tokens').type = "Heading"
           /\ Last(tokens').type = "Heading" =>
                (Last(tokens').level = HashRun(Line) /\ Last(tokens').level \in 1..6)
      /\ (Return /\ lines = <<<<"#", " ", "T", "i", "t", "l", "e">>>>) =>
           html = <<"<", "h", "1", ">", "T", "i", "t", "l", "e", "<", "/", "h", "1", ">">>
      /\ (Return /\ lines = <<<<"#", "#", "#", "#", "#", "#", " ", "D", "e", "e", "p">>>>) =>
           html = <<"<", "h", "6", ">", "D", "e", "e", "p", "<", "/", "h", "6", ">">> ]_vars

\* after leading whitespace, line starts with a bullet and a space, or with
\* one to four digits and ". "
ListShape(line) ==
  \/ \E b \in Bullets : StartsWith(TrimStart(line), b \o <<" ">>)
  \/ \E n \in 1..4 :
       /\ Len(TrimStart(line)) >= n + 2
       /\ \A k \in 1..n : TrimStart(line)[k] \in Digits
       /\ TrimStart(line)[n + 1] = "." /\ TrimStart(line)[n + 2] = " "

\* C10: in both dialects the line reaching the list rule is taken as a list
\* line exactly when it starts with a bullet and a space or with an ordinal
\* of one to four digits and ". ": four digits are accepted and five
\* rejected, by the basic tokenizer as by the extended one.
C10_ListLineShape ==
  [][ (Scanning /\ Rule \in {"list", "alert", "quote", "paragraph"} /\ i' # i) =>
        (ListShape(Line) <=> Last(tokens').type = "List") ]_vars

\* the pipe-delimited cells of a row: the row trimmed, one leading and one
\* trailing "|" removed, split on "|", each cell trimmed
PipeCells(line) ==
  TrimAll(Split(SubSeq(Trim(line),
                       IF StartsWith(Trim(line), <<"|">>) THEN 2 ELSE 1,
                       IF EndsWith(Trim(line), <<"|">>) THEN Len(Trim(line)) - 1 ELSE Len(Trim(line))),
                "|"))

\* a separator row: at least one non-empty cell, and every non-empty cell is
\* made of ":", "-" and space only and holds a "-"
SeparatorShape(line) ==
  /\ \E k \in 1..Len(PipeCells(line)) : PipeCells(line)[k] # <<>>
  /\ \A k \in 1..Len(PipeCells(line)) :
       PipeCells(line)[k] # <<>> =>
         /\ \A q \in 1..Len(PipeCells(line)[k]) : PipeCells(line)[k][q] \in {":", "-", " "}
         /\ Contains(PipeCells(line)[k], "-")

\* C11: the table sub-parser takes the second row as a separator, and a Table
\* token is produced, only if every non-empty cell of that row is made of
\* ":", "-" and space and holds at least one "-"; and a header with a
\* non-empty cell followed by such a row does start a table.
C11_SeparatorEveryCellHasDash ==
  [][ /\ TableRule => SeparatorShape(LineAt(lines, i + 1))
      /\ (/\ Scanning /\ dialect = "gfm" /\ i + 1 < Len(lines)
          /\ Rule \notin {"blank", "code"}
          /\ is_potential_table_line(Line)
          /\ \E k \in 1..Len(PipeCells(Line)) : PipeCells(Line)[k] # <<>>
          /\ SeparatorShape(LineAt(lines, i + 1)))
           => (TableRule \/ TablePanic) ]_vars

\* C12: every Table token has exactly one alignment per header column: as many
\* alignments as headers, the k-th of them derived from the k-th cell of the
\* separator row.
C12_OneAlignmentPerHeader ==
  [][ TableRule =>
        /\ Len(Last(tokens').alignments) = Len(Last(tokens').headers)
        /\ \A k \in 1..Len(Last(tokens').headers) :
             /\ k <= Len(PipeCells(LineAt(lines, i + 1)))
             /\ Last(tokens').alignments[k] = CellAlignment(PipeCells(LineAt(lines, i + 1))[k]) ]_vars

\* the alignment the colons of a separator cell stand for
ColonAlignment(cell) ==
  IF StartsWith(Trim(cell), <<":">>) /\ EndsWith(Trim(cell), <<":">>) THEN "Center"
  ELSE IF StartsWith(Trim(cell), <<":">>) THEN "Left"
  ELSE IF EndsWith(Trim(cell), <<":">>) THEN "Right"
  ELSE "None"

\* html of one table cell with an optional style
StyledCell(open, style, text, close) == open \o style \o TAG_END \o text \o close

\* C13: each separator cell gives Left for a leading colon only, Right for a
\* trailing colon only, Center for both and None for neither; the renderer
\* styles th and td by column index, with no style for None and for a cell
\* beyond the alignment list: |A|B| over |:--|--:| renders left and right
\* aligned header cells and data cells with the same styles.
C13_AlignmentFromColons ==
  [][ /\ TableRule =>
           \A k \in 1..Len(Last(tokens').alignments) :
             Last(tokens').alignments[k]
               = ColonAlignment(RowCells(LineAt(lines, i + 1)).cells[k])
      /\ (/\ Return /\ dialect = "gfm"
          /\ Len(lines) = 3
          /\ lines[1] = <<"|", "A", "|", "B", "|">>
          /\ lines[2] = <<"|", ":", "-", "-", "|", "-", "-", ":", "|">>
          /\ lines[3] \in {<<"|", "1", "|", "2", "|">>, <<"1", "|", "2", "|">>}) =>
           html = TABLE_OPEN \o THEAD_OPEN
                    \o StyledCell(TH_OPEN, STYLE_LEFT, <<"A">>, TH_CLOSE)
                    \o StyledCell(TH_OPEN, STYLE_RIGHT, <<"B">>, TH_CLOSE)
                    \o THEAD_CLOSE \o TBODY_OPEN \o TR_OPEN
                    \o StyledCell(TD_OPEN, STYLE_LEFT, <<"1">>, TD_CLOSE)
                    \o StyledCell(TD_OPEN, STYLE_RIGHT, <<"2">>, TD_CLOSE)
                    \o (IF lines[3] = <<"1", "|", "2", "|">>
                        THEN StyledCell(TD_OPEN, <<>>, <<>>, TD_CLOSE) ELSE <<>>)
                    \o TR_CLOSE \o TBODY_CLOSE \o TABLE_CLOSE ]_vars

\* the inline formatter applied to each cell of a row
FormattedCells(d, cells) == [c \in 1..Len(cells) |-> FormatInline(d, cells[c])]

\* C14: every row of a table is split into cells after a leading "|" and a
\* trailing "|" are each stripped, whether or not the other one is there and
\* whatever whitespace follows the last pipe: the header cells, the number of
\* separator cells and the cells of every data row are those of the stripped
\* row.
C14_RowPipesStripped ==
  [][ TableRule =>
        /\ Last(tokens').headers
             = FormattedCells(dialect, NonEmpty(PipeCells(LineAt(lines, i))))
        /\ Len(Last(tokens').alignments) = Len(PipeCells(LineAt(lines, i + 1)))
        /\ \A n \in 1..Len(Last(tokens').rows) :
             Last(tokens').rows[n]
               = FormattedCells(dialect, PipeCells(LineAt(lines, i + 1 + n))) ]_vars

\* C15: after an alert's first line the "> " lines are appended only until the
\* first blank line, non-blockquote line or other alert start: no line that the
\* alert takes as content comes after a blank line, and every line it takes is
\* a "> " line that does not open an alert.
AlertContinuation(line) ==
  /\ StartsWith(TrimStart(line), <<">", " ">>)
  /\ ~StartsWith(TrimStart(line), <<">", " ", "[", "!">>)

C15_AlertStopsAtBlankLine ==
  [][AlertRule =>
       \A k \in (i + 1)..(i' - 1) :
         AlertContinuation(LineAt(lines, k)) =>
           \A j \in (i + 1)..(k - 1) : AlertContinuation(LineAt(lines, j))]_vars

\* C16: an Alert token is emitted if and only if the dialect is the extended
\* one and the blockquote line, after "> ", starts with exactly one of the five
\* tags (case-sensitive), and its kind is the kind of that tag; any other line
\* reaching the blockquote rule becomes a Blockquote; the basic dialect holds
\* no Alert token; "> [!WARNING]" / "> careful" renders the alert-warning div
\* titled Warning in the extended dialect and blockquote markup in the basic.
AlertTags ==
  { [tag |-> TAG_NOTE, kind |-> "Note"], [tag |-> TAG_TIP, kind |-> "Tip"],
    [tag |-> TAG_IMPORTANT, kind |-> "Important"], [tag |-> TAG_WARNING, kind |-> "Warning"],
    [tag |-> TAG_CAUTION, kind |-> "Caution"] }

TaggedAs(line, t) == StartsWith(TrimStart(line), <<">", " ">> \o t.tag)

TaggedQuote(line) == \E t \in AlertTags : TaggedAs(line, t)

WarningDoc == << <<">", " ">> \o TAG_WARNING, <<">", " ", "c", "a", "r", "e", "f", "u", "l">> >>

WarningAlertHtml ==
  <<"<", "d", "i", "v", " ", "c", "l", "a", "s", "s", "=", "\"", "a", "l", "e", "r", "t", " ",
    "a", "l", "e", "r", "t", "-", "w", "a", "r", "n", "i", "n", "g", "\"", ">">>
    \o SubSeq(ALERT_B, 3, Len(ALERT_B))

C16_AlertIffExtendedAndTagged ==
  [][ /\ (Scanning /\ Rule \in {"alert", "quote"}) =>
          /\ (Last(tokens').type = "Alert") <=> (dialect = "gfm" /\ TaggedQuote(LineAt(lines, i)))
          /\ (Last(tokens').type # "Alert") => (Last(tokens').type = "Blockquote")
          /\ (Last(tokens').type = "Alert") =>
               \A t \in AlertTags :
                 TaggedAs(LineAt(lines, i), t) => Last(tokens').alert_type = t.kind
      /\ \A k \in 1..Len(tokens') :
           (tokens'[k].type = "Alert") => (dialect = "gfm" /\ (AlertRule \/ tokens[k].type = "Alert"))
      /\ (Return /\ lines = WarningDoc /\ dialect = "gfm") =>
           /\ StartsWith(html, WarningAlertHtml)
           /\ html = ALERT_A \o <<"w", "a", "r", "n", "i", "n", "g">> \o ALERT_B
                       \o get_alert_config("Warning").icon \o ALERT_C
                       \o <<"W", "a", "r", "n", "i", "n", "g">> \o ALERT_D
                       \o <<"c", "a", "r", "e", "f", "u", "l">> \o ALERT_E
      /\ (Return /\ lines = WarningDoc /\ dialect = "basic") =>
           html = BQ_OPEN \o TAG_WARNING \o BQ_CLOSE
                    \o BQ_OPEN \o <<"c", "a", "r", "e", "f", "u", "l">> \o BQ_CLOSE]_vars

C16_WarningAlertRendered ==
  /\ pc = "done" /\ dialect = "gfm" /\ lines = WarningDoc
  /\ Len(tokens) = 1 /\ tokens[1].type = "Alert" /\ tokens[1].alert_type = "Warning"
  /\ StartsWith(html, WarningAlertHtml)

\* C17: in the extended dialect an item's checked field is Some(false) exactly
\* when the text after the item's own marker begins with "[ ]", Some(true)
\* exactly when it begins with "[x]" or "[X]", and None otherwise; when it is
\* Some the three characters are removed from the content; the renderer emits
\* one disabled checkbox per item whose checked is Some, with the checked
\* attribute iff it is Some(true).
OwnContent(line) ==
  IF TrimStart(line)[1] \in Digits
  THEN From(TrimStart(line), Find(TrimStart(line), <<".", " ">>) + 2)
  ELSE From(TrimStart(line), 2)

ItemLines(ls, from, to) == SelectSeq(SubSeq(ls, from + 1, to), LAMBDA l : ~IsBlank(l))

RECURSIVE Occurrences(_, _)
Occurrences(s, p) ==
  IF Find(s, p) = -1 THEN 0 ELSE 1 + Occurrences(From(s, Find(s, p) + Len(p)), p)

CheckedItems(items, v) == Cardinality({n \in 1..Len(items) : items[n].checked = <<v>>})

TaskPrefix(content, marks) == \E m \in marks : StartsWith(content, <<"[", m, "]">>)

C17_CheckboxIffTaskPrefix ==
  [][ /\ (ListRule /\ dialect = "gfm") =>
           \A n \in 1..Len(Last(tokens').items) :
             /\ (Last(tokens').items[n].checked = <<FALSE>>)
                  <=> TaskPrefix(OwnContent(ItemLines(lines, i, i')[n]), {" "})
             /\ (Last(tokens').items[n].checked = <<TRUE>>)
                  <=> TaskPrefix(OwnContent(ItemLines(lines, i, i')[n]), {"x", "X"})
             /\ (Last(tokens').items[n].checked = <<>>)
                  <=> ~TaskPrefix(OwnContent(ItemLines(lines, i, i')[n]), {" ", "x", "X"})
             /\ (Last(tokens').items[n].checked # <<>>) =>
                  (Last(tokens').items[n].content
                     = FormatInline(dialect, Trim(From(OwnContent(ItemLines(lines, i, i')[n]), 3))))
      /\ (RenderToken /\ dialect = "gfm" /\ tokens[r + 1].type = "List") =>
           /\ Occurrences(html', CHECKBOX_ON) - Occurrences(html, CHECKBOX_ON)
                = CheckedItems(tokens[r + 1].items, TRUE)
           /\ Occurrences(html', CHECKBOX_OFF) - Occurrences(html, CHECKBOX_OFF)
                = CheckedItems(tokens[r + 1].items, FALSE)
           /\ Occurrences(html', SubSeq(CHECKBOX_OFF, 1, 22)) - Occurrences(html, SubSeq(CHECKBOX_OFF, 1, 22))
                = CheckedItems(tokens[r + 1].items, TRUE) + CheckedItems(tokens[r + 1].items, FALSE) ]_vars

CacheBound(d) == IF d = "gfm" THEN GfmEvictAbove ELSE BasicEvictAbove

C19_CacheBounded ==
  [][ /\ CacheLen(html_cache') <= CacheBound(dialect)
      /\ (ParseBegin /\ CacheLen(html_cache) > CacheBound(dialect)) =>
           CacheLen(html_cache') = CacheLen(html_cache) - (CacheLen(html_cache) \div 2) ]_vars

\* C20: parsing terminates.  Every turn of the tokenizer loop that returns
\* moves the scan position forward by at least one line; every step of the
\* inline formatter goes on at a later character; a delimiter or link search
\* started after an opening character ends within the text, keeps no more
\* than its cap and reads at most the cap, the character that exceeds it and
\* the closing delimiter; and every call comes to its end (the result
\* returned, or the abort of C1).
ArmNext(d, t, p, ch, peek) ==
  CASE d = "gfm" /\ ch = "~" /\ peek = "~" -> extract_until(d, t, p + 2, "~", 2).pos
    [] ch = "*" /\ peek = "*" -> extract_until(d, t, p + 2, "*", 2).pos
    [] ch = "*" /\ peek # "*" -> extract_until(d, t, p + 1, "*", 1).pos
    [] d = "gfm" /\ ch = "_" /\ peek = "_" -> extract_until(d, t, p + 2, "_", 2).pos
    [] d = "gfm" /\ ch = "_" /\ peek # "_" -> extract_until(d, t, p + 1, "_", 1).pos
    [] ch = BT -> extract_until(d, t, p + 1, BT, 1).pos
    [] ch = "!" /\ peek = "[" ->
         IF extract_link(d, t, p + 2).found THEN extract_link(d, t, p + 2).pos ELSE p + 2
    [] ch = "[" ->
         IF extract_link(d, t, p + 1).found THEN extract_link(d, t, p + 1).pos ELSE p + 1
    [] OTHER -> p + 1

SearchBounded(d, t, p) ==
  /\ \A c \in {"*", "_", "~", BT} : \A n \in {1, 2} :
       /\ extract_until(d, t, p, c, n).pos \in p..(Len(t) + 1)
       /\ extract_until(d, t, p, c, n).pos - p <= MaxSpan(d, n) + n
       /\ Len(extract_until(d, t, p, c, n).content) <= MaxSpan(d, n)
  /\ extract_link(d, t, p).found =>
       /\ extract_link(d, t, p).pos \in (p + 1)..(Len(t) + 1)
       /\ Len(extract_link(d, t, p).text) <= (IF d = "gfm" THEN GfmMaxLinkText ELSE BasicMaxLinkText)
       /\ Len(extract_link(d, t, p).url) <= (IF d = "gfm" THEN GfmMaxUrl ELSE BasicMaxUrl)

C20_ParsingTerminates ==
  /\ [][ /\ (Scanning /\ pc' = "scan") => i' >= i + 1
         /\ ParseBegin =>
              \A k \in 1..Len(lines) : \A p \in 1..Len(lines[k]) :
                /\ ArmNext(dialect, lines[k], p, lines[k][p],
                           IF p < Len(lines[k]) THEN lines[k][p + 1] ELSE "EOF") > p
                /\ lines[k][p] \in Triggers(dialect) => SearchBounded(dialect, lines[k], p + 1) ]_vars
  /\ <>(pc \in {"done", "panic"})

C20_SearchGivenUpAtCap ==
  /\ pc = "done"
  /\ Len(lines) = 1
  /\ Len(lines[1]) = GfmMaxSingle + 3
  /\ lines[1][1] = "*" /\ lines[1][2] = "a"
  /\ ~extract_until(dialect, lines[1], 2, "*", 1).found
  /\ extract_until(dialect, lines[1], 2, "*", 1).pos = GfmMaxSingle + 3
  /\ Len(tokens) = 1

\* the text t holds, after its first n characters, a "]" that is immediately
\* followed by "(" and a later ")"
LinkFollows(t, n) ==
  \E q \in (n + 1)..Len(t) :
    /\ t[q] = "]"
    /\ q < Len(t) /\ t[q + 1] = "("
    /\ \E z \in (q + 2)..Len(t) : t[z] = ")"

\* C21: when a paragraph's text begins with "[" (or with the image opener
\* "![") and no "]" followed at once by a "(url)" comes after it, the bracket
\* is emitted literally: the output is "[" (for the image opener "![")
\* followed by the formatter's output for the text after it.
C21_UnmatchedBracketLiteral ==
  [][ ParagraphRule =>
        /\ (StartsWith(Line, <<"[">>) /\ ~LinkFollows(Line, 1)) =>
             Last(tokens').text = <<"[">> \o FormatInline(dialect, From(Line, 1))
        /\ (StartsWith(Line, <<"!", "[">>) /\ ~LinkFollows(Line, 2)) =>
             Last(tokens').text = <<"!", "[">> \o FormatInline(dialect, From(Line, 2)) ]_vars

\* C22: for the empty input the entry point of each dialect goes straight from
\* the early return of parse() to its own return: no line is scanned, no token
\* is emitted or rendered, and the result is html = "" with word_count = 0.
C22_EmptyInputReturnsEmpty ==
  /\ [](lines = <<>> =>
          /\ pc \in {"start", "render", "done"}
          /\ tokens = <<>> /\ i = 0 /\ r = 0
          /\ html = <<>> /\ word_count = 0
          /\ pc = "done" => result = <<[html |-> <<>>, word_count |-> 0, error |-> <<>>]>>)
  /\ [][ (lines = <<>>) => (ParseEmpty \/ Return) ]_vars

C22_EmptyInputReturned ==
  /\ lines = <<>>
  /\ pc = "done"
  /\ result = <<[html |-> <<>>, word_count |-> 0, error |-> <<>>]>>

\* what the list renderer of dialect d emits for the items of a List token
ListItemsHtml(d, items) ==
  IF d = "gfm" THEN render_gfm_list_items(items) ELSE render_basic_list_items(items)

\* the positions in h at which the tag starts
TagStarts(h, tag) == {q \in 1..(Len(h) - Len(tag) + 1) : SubSeq(h, q, q + Len(tag) - 1) = tag}

\* the number of nested wrappers open in h just before position q
OpenWrappers(h, q) ==
  Cardinality({x \in TagStarts(h, UL_OPEN) : x < q}) - Cardinality({x \in TagStarts(h, UL_CLOSE) : x < q})

\* the position in h of the k-th <li>
ItemStart(h, k) ==
  CHOOSE q \in TagStarts(h, LI_OPEN) : Cardinality({x \in TagStarts(h, LI_OPEN) : x < q}) = k - 1

\* C23: for every List token, the list renderer has as many nested wrappers
\* open when it emits an item as the item's level (a rise opens one wrapper per
\* level, a drop closes one per level), and it closes every wrapper still open
\* at the end, so nested <ul> and </ul> tags are balanced; items at indentation
\* 0, 2, 2, 4 give two nested <ul> levels, both closed at the end of the list.
C23_WrapperDepthFollowsLevel ==
  /\ \A t \in 1..Len(tokens) :
       tokens[t].type = "List" =>
         /\ Cardinality(TagStarts(ListItemsHtml(dialect, tokens[t].items), LI_OPEN)) = Len(tokens[t].items)
         /\ \A k \in 1..Len(tokens[t].items) :
              OpenWrappers(ListItemsHtml(dialect, tokens[t].items),
                           ItemStart(ListItemsHtml(dialect, tokens[t].items), k)) = tokens[t].items[k].level
         /\ Cardinality(TagStarts(ListItemsHtml(dialect, tokens[t].items), UL_OPEN))
              = Cardinality(TagStarts(ListItemsHtml(dialect, tokens[t].items), UL_CLOSE))
  /\ (pc = "done" /\ lines = StairDoc) =>
       /\ Cardinality(TagStarts(html, UL_OPEN)) = 3
       /\ EndsWith(html, UL_CLOSE \o UL_CLOSE \o UL_CLOSE)

C23_StairListRendered ==
  /\ pc = "done" /\ lines = StairDoc /\ dialect = "gfm"
  /\ Len(tokens) = 1
  /\ [k \in 1..4 |-> tokens[1].items[k].level] = <<0, 1, 1, 2>>
  /\ EndsWith(html, UL_CLOSE \o UL_CLOSE \o UL_CLOSE)

\* the 0-based index of the first line from k on that is neither blank nor a
\* list line (the number of lines when there is none)
RunEnd(d, ls, k) ==
  Min({q \in k..(Len(ls) - 1) : ~IsBlank(LineAt(ls, q)) /\ ~is_list_line(d, LineAt(ls, q))} \cup {Len(ls)})

RowsEnd(ls, k) ==
  Min({q \in k..(Len(ls) - 1) : ~Contains(LineAt(ls, q), "|") \/ IsBlank(LineAt(ls, q))} \cup {Len(ls)})

\* the extended scan loop is at a line that holds "|" and has a line after it,
\* and neither the blank rule nor the fence rule takes it
AtTableCandidate ==
  /\ Scanning /\ dialect = "gfm"
  /\ Rule \notin {"blank", "code"}
  /\ Contains(Line, "|")
  /\ i + 1 < Len(lines)

\* C25: at a line that holds "|", when the next line is not a valid separator
\* the step emits no Table token and tokenizes the same line by a later rule;
\* when it is valid the step emits a Table token and consumes the header, the
\* separator and the data rows, which run while a line holds "|" and is not
\* blank: scanning goes on at the first line that fails this.
C25_TableConsumesItsRows ==
  [][ (AtTableCandidate /\ vars' # vars) =>
        IF ~is_table_separator(LineAt(lines, i + 1))
        THEN /\ pc' = "scan"
             /\ Len(tokens') = Len(tokens) + 1
             /\ Last(tokens').type # "Table"
        ELSE /\ pc' = "scan"
             /\ Len(tokens') = Len(tokens) + 1
             /\ Last(tokens').type = "Table"
             /\ i' = RowsEnd(lines, i + 2)
             /\ Len(Last(tokens').rows) = i' - (i + 2) ]_vars

\* the position of the first "*" of t (past the end when there is none)
FirstStar(t, from) == Min({q \in from..Len(t) : t[q] = "*"} \cup {Len(t) + 1})

\* the position of the first "**" of t from position from on (past the end when there is none)
FirstStarPair(t, from) ==
  Min({q \in from..(Len(t) - 1) : t[q] = "*" /\ t[q + 1] = "*"} \cup {Len(t) + 1})

\* t holds no character that starts an inline construct of dialect d before position p
PlainBefore(d, t, p) == \A q \in 1..(p - 1) : t[q] \notin Triggers(d)

\* the html element of the given name around body
Element(name, body) == <<"<">> \o name \o <<">">> \o body \o <<"<", "/">> \o name \o <<">">>

\* the output for a text whose first construct is the span t[open..close] with
\* delimiters of n characters: the text before it, the span's content as an
\* element of the given name, and the formatter's output for the text after it
SpanRendered(d, t, open, close, n, name) ==
  SubSeq(t, 1, open - 1) \o Element(name, SubSeq(t, open + n, close - 1))
    \o FormatInline(d, SubSeq(t, close + n, Len(t)))

\* C26: in a paragraph whose first inline construct is a matched **x** (the
\* closing ** found within the span cap) the output is the text before it
\* unchanged, <strong>x</strong>, and the formatter's output for the text after
\* it; likewise <em>x</em> for a matched *x*.  "**bold** and *italic*" formats
\* to "<strong>bold</strong> and <em>italic</em>", and the document "# Hello
\* World" / "" / "This is a **bold** text." renders the h1 element followed by
\* the paragraph element that holds the strong element.
C26_BoldAndItalicRendered ==
  /\ [][ ParagraphRule =>
           /\ ( /\ FirstStar(Line, 1) < Len(Line)
                /\ PlainBefore(dialect, Line, FirstStar(Line, 1))
                /\ Line[FirstStar(Line, 1) + 1] = "*"
                /\ FirstStarPair(Line, FirstStar(Line, 1) + 2) <= Len(Line)
                /\ FirstStarPair(Line, FirstStar(Line, 1) + 2) - (FirstStar(Line, 1) + 2) <= MaxSpan(dialect, 2) )
              => Last(tokens').text
                   = SpanRendered(dialect, Line, FirstStar(Line, 1),
                                  FirstStarPair(Line, FirstStar(Line, 1) + 2), 2,
                                  <<"s", "t", "r", "o", "n", "g">>)
           /\ ( /\ FirstStar(Line, 1) < Len(Line)
                /\ PlainBefore(dialect, Line, FirstStar(Line, 1))
                /\ Line[FirstStar(Line, 1) + 1] # "*"
                /\ FirstStar(Line, FirstStar(Line, 1) + 1) <= Len(Line)
                /\ FirstStar(Line, FirstStar(Line, 1) + 1) - (FirstStar(Line, 1) + 1) <= MaxSpan(dialect, 1) )
              => Last(tokens').text
                   = SpanRendered(dialect, Line, FirstStar(Line, 1),
                                  FirstStar(Line, FirstStar(Line, 1) + 1), 1, <<"e", "m">>) ]_vars
  /\ []((pc = "done" /\ lines = <<BoldItalicLine>>) =>
          tokens = <<[type |-> "Paragraph",
                      text |-> Element(<<"s", "t", "r", "o", "n", "g">>, <<"b", "o", "l", "d">>)
                                 \o <<" ", "a", "n", "d", " ">>
                                 \o Element(<<"e", "m">>, <<"i", "t", "a", "l", "i", "c">>)]>>)
  /\ []((pc = "done" /\ lines = HelloDoc) =>
          html = Element(<<"h", "1">>, SubSeq(HelloLine, 3, Len(HelloLine)))
                   \o Element(<<"p">>,
                              SubSeq(BoldTextLine, 1, 10)
                                \o Element(<<"s", "t", "r", "o", "n", "g">>, <<"b", "o", "l", "d">>)
                                \o SubSeq(BoldTextLine, 19, Len(BoldTextLine))))

C26_BoldItalicExampleRendered ==
  /\ pc = "done" /\ lines = <<BoldItalicLine>>
  /\ Len(tokens) = 1
  /\ Find(tokens[1].text, <<"<", "s", "t", "r", "o", "n", "g", ">">>) = 0
  /\ Find(tokens[1].text, <<"<", "e", "m", ">">>) > Find(tokens[1].text, <<" ", "a", "n", "d", " ">>)

\* the lines joined by newlines, in order
RECURSIVE JoinedByNewlines(_)
JoinedByNewlines(ls) ==
  IF ls = <<>> THEN <<>>
  ELSE IF Len(ls) = 1 THEN ls[1]
  ELSE ls[1] \o <<"\n">> \o JoinedByNewlines(Tail(ls))

\* the 0-based index of the first line after k that is a closing fence (the
\* number of lines when there is none)
ClosingFence(ls, k) == Min({q \in (k + 1)..(Len(ls) - 1) : Trim(LineAt(ls, q)) = FENCE} \cup {Len(ls)})

\* C27: a fence that carries a language tag X and has a closing fence is
\* tokenized as one CodeBlock with language X whose code is the lines strictly
\* between the fences joined by newlines; both fence lines are consumed with
\* it, and it renders as <pre><code class="language-X"> around that code.
C27_FencedBlockWithLanguage ==
  [][ ( /\ CodeBlockRule
        /\ Trim(From(LineAt(lines, i), 3)) # <<>>
        /\ ClosingFence(lines, i) < Len(lines) )
      => /\ Len(tokens') = Len(tokens) + 1
         /\ Last(tokens').type = "CodeBlock"
         /\ Last(tokens').language = <<Trim(From(LineAt(lines, i), 3))>>
         /\ Last(tokens').code = JoinedByNewlines(SubSeq(lines, i + 2, ClosingFence(lines, i)))
         /\ i' = ClosingFence(lines, i) + 1
         /\ StartsWith(TokenHtml(dialect, Last(tokens')),
                       <<"<", "p", "r", "e", ">", "<", "c", "o", "d", "e", " ", "c", "l", "a", "s", "s", "=", "\"",
                         "l", "a", "n", "g", "u", "a", "g", "e", "-">>
                         \o Trim(From(LineAt(lines, i), 3)) \o <<"\"", ">">>) ]_vars

\* the list tags of h in the order they stand in it: "li", "/li", "ul", "/ul"
ListTags(h) ==
  LET at == [tag \in {"li", "/li", "ul", "/ul"} |->
               TagStarts(h, CASE tag = "li" -> LI_OPEN [] tag = "/li" -> LI_CLOSE
                               [] tag = "ul" -> UL_OPEN [] OTHER -> UL_CLOSE)]
      all == at["li"] \cup at["/li"] \cup at["ul"] \cup at["/ul"]
      nth(k) == CHOOSE q \in all : Cardinality({x \in all : x < q}) = k - 1
  IN [k \in 1..Cardinality(all) |-> CHOOSE tag \in DOMAIN at : nth(k) \in at[tag]]

\* reading the tags from the k-th on with the elements in open (innermost
\* last): every closing tag closes the innermost open element, and nothing is
\* left open at the end
RECURSIVE Nested(_, _, _)
Nested(tags, k, open) ==
  IF k > Len(tags) THEN open = <<>>
  ELSE IF tags[k] \in {"li", "ul"} THEN Nested(tags, k + 1, Append(open, tags[k]))
  ELSE /\ open # <<>>
       /\ Last(open) = (IF tags[k] = "/li" THEN "li" ELSE "ul")
       /\ Nested(tags, k + 1, SubSeq(open, 1, Len(open) - 1))

\* C28: for every List token the html of the list renderer holds as many
\* </li> as <li>, and every <li> is closed before the list wrapper around it
\* is closed (the nested wrappers, and the end of the items, where the list's
\* own wrapper is closed).
C28_ListItemTagsBalanced ==
  \A t \in 1..Len(tokens) :
    tokens[t].type = "List" =>
      /\ Cardinality(TagStarts(ListItemsHtml(dialect, tokens[t].items), LI_CLOSE))
           = Cardinality(TagStarts(ListItemsHtml(dialect, tokens[t].items), LI_OPEN))
      /\ Nested(ListTags(ListItemsHtml(dialect, tokens[t].items)), 1, <<>>)

\* the text of a list line after its own marker, without the task-list prefix
\* in the extended dialect
OwnText(d, line) ==
  IF d = "gfm" THEN Trim(Checkbox(OwnContent(line)).rest) ELSE Trim(OwnContent(line))

\* C29: in a list run the ordered flag is that of the first line's marker (a
\* digit after the indentation), and the content of every item is the
\* formatted text that follows its own line's marker, whatever the marker kind
\* of the first line.
C29_ItemContentAfterOwnMarker ==
  [][ ListRule =>
        /\ Last(tokens').ordered = (TrimStart(LineAt(lines, i))[1] \in Digits)
        /\ \A n \in 1..Len(Last(tokens').items) :
             Last(tokens').items[n].content
               = FormatInline(dialect, OwnText(dialect, ItemLines(lines, i, i')[n])) ]_vars

(***************************************************************************)
(* Tab session manager (commands/tabs.rs).  One TabManager serves the      *)
(* process, with one session per workspace path.  A tab is modelled by its *)
(* id and file_path, the content cache by its set of keys.  The manager is *)
(* only touched under its mutex, so every locked section is one step; a    *)
(* create_tab call that has to read its file is suspended between them.    *)
(***************************************************************************)
\* file paths a tab is created for
Paths == {"a.md"}

\* number of tab ids handed out in one run
MaxTabs == 3

\* number of create_tab calls in flight at once
MaxCreating == 2

\* tab ids a command is called with: every id handed out, and one that never is
TabIds == 1..(MaxTabs + 1)

\* TabManager::new: max_cache_size
max_cache_size == 50

\* TabManager::new: cache_cleanup_threshold
cache_cleanup_threshold == 40

\* Option: None and Some(x)
None == <<>>

Some(x) == <<x>>

\* Result: Ok(v) and Err(e)
Ok(v) == <<"Ok", v>>

Err(e) == <<"Err", e>>

\* the session record get_or_create_session inserts for a new workspace
NewSession == [tabs |-> <<>>, active_tab_id |-> None]

\* TabManager::get_or_create_session: the session map after the call
get_or_create_session(sess, ws) ==
  IF sess[ws] = <<>> THEN [sess EXCEPT ![ws] = <<NewSession>>] ELSE sess

\* file paths of all tabs of all sessions (active_files in cleanup_cache)
ActiveFiles(sess) ==
  {p \in Paths : \E w \in Workspaces : sess[w] # <<>> /\
     \E k \in 1..Len(sess[w][1].tabs) : sess[w][1].tabs[k].file_path = Some(p)}

\* TabManager::cleanup_cache: the caches it can leave (which entries go when the
\* cache is still too large depends on the HashMap's iteration order)
cleanup_cache(cache, sess) ==
  IF Cardinality(cache) <= cache_cleanup_threshold THEN {cache}
  ELSE LET kept == cache \cap ActiveFiles(sess)
       IN IF Cardinality(kept) > max_cache_size
          THEN {c \in SUBSET kept : Cardinality(c) = max_cache_size}
          ELSE {kept}

\* TabManager::cache_content: the caches it can leave
cache_content(cache, sess, path) ==
  IF Cardinality(cache) >= max_cache_size
  THEN {c \cup {path} : c \in cleanup_cache(cache, sess)}
  ELSE {cache \cup {path}}

\* Vec::remove at the 1-based position pos
RemoveAt(s, pos) == SubSeq(s, 1, pos - 1) \o SubSeq(s, pos + 1, Len(s))

\* iter().position(|tab| tab.id == tab_id), 1-based; 0 when there is none
TabPosition(tabs, tab_id) ==
  LET found == {k \in 1..Len(tabs) : tabs[k].id = tab_id}
  IN IF found = {} THEN 0 ELSE Min(found)

\* what a command returned
Returned(command, ws, tab_id, value) ==
  <<[command |-> command, workspace_path |-> ws, tab_id |-> tab_id, returned |-> value]>>

\* create_tab up to its first suspension: Uuid::new_v4 gives an id never handed
\* out before; with no file path, or with the file's content in the cache, the
\* tab is ready to be added, otherwise the file is read first
CreateTabBegin(ws, file_path) ==
  /\ Cardinality(creating) < MaxCreating
  /\ uuid_count < MaxTabs
  /\ uuid_count' = uuid_count + 1
  /\ creating' = creating \cup
       {[workspace_path |-> ws, file_path |-> file_path, tab_id |-> uuid_count + 1,
         at |-> IF file_path = None \/ file_path[1] \in content_cache THEN "add" ELSE "read"]}
  /\ UNCHANGED <<sessions, content_cache, tab_result, parser_vars>>

\* create_tab: tokio::fs::read_to_string returns, and its content is cached on Ok
CreateTabRead(c) ==
  /\ c.at = "read"
  /\ \/ \E cache \in cache_content(content_cache, sessions, c.file_path[1]) :
          content_cache' = cache
     \/ UNCHANGED content_cache
  /\ creating' = (creating \ {c}) \cup {[c EXCEPT !.at = "add"]}
  /\ UNCHANGED <<sessions, uuid_count, tab_result, parser_vars>>

\* create_tab: the tab is pushed to the workspace's session and returned
CreateTabAdd(c) ==
  /\ c.at = "add"
  /\ LET tab == [id |-> c.tab_id, file_path |-> c.file_path]
         created == get_or_create_session(sessions, c.workspace_path)
         session == created[c.workspace_path][1]
     IN /\ sessions' = [created EXCEPT ![c.workspace_path] =
                          <<[session EXCEPT !.tabs = Append(session.tabs, tab)]>>]
        /\ tab_result' = Returned("create_tab", c.workspace_path, c.tab_id, Ok(tab))
  /\ creating' = creating \ {c}
  /\ UNCHANGED <<content_cache, uuid_count, parser_vars>>

\* close_tab with the active tab left as it was: a reading that C30 tells apart
\* from the source's choice of a new active tab
close_tab_stale(ws, tab_id) ==
  LET created == get_or_create_session(sessions, ws)
      session == created[ws][1]
      pos == TabPosition(session.tabs, tab_id)
  IN /\ IF pos # 0
        THEN /\ sessions' = [created EXCEPT ![ws] =
                               <<[session EXCEPT !.tabs = RemoveAt(session.tabs, pos)]>>]
             /\ tab_result' = Returned("close_tab", ws, tab_id, Ok(session.active_tab_id))
        ELSE /\ sessions' = created
             /\ tab_result' = Returned("close_tab", ws, tab_id, Err("Tab not found"))
     /\ UNCHANGED <<content_cache, creating, uuid_count, parser_vars>>

\* close_tab
close_tab(ws, tab_id) ==
  LET created == get_or_create_session(sessions, ws)
      session == created[ws][1]
      pos == TabPosition(session.tabs, tab_id)
  IN /\ IF pos # 0
        THEN LET removed_tab == session.tabs[pos]
                 tabs == RemoveAt(session.tabs, pos)
                 new_index == IF pos - 1 < Len(tabs) THEN pos - 1 ELSE Len(tabs) - 1
                 new_active_id ==
                   IF session.active_tab_id = Some(tab_id)
                   THEN IF tabs # <<>> THEN Some(tabs[new_index + 1].id) ELSE None
                   ELSE session.active_tab_id
                 still_in_use ==
                   \E k \in 1..Len(tabs) : tabs[k].file_path = removed_tab.file_path
             IN /\ sessions' = [created EXCEPT ![ws] =
                                  <<[tabs |-> tabs, active_tab_id |-> new_active_id]>>]
                /\ content_cache' =
                     IF removed_tab.file_path # None /\ ~still_in_use
                     THEN content_cache \ {removed_tab.file_path[1]}
                     ELSE content_cache
                /\ tab_result' = Returned("close_tab", ws, tab_id, Ok(new_active_id))
        ELSE /\ sessions' = created
             /\ UNCHANGED content_cache
             /\ tab_result' = Returned("close_tab", ws, tab_id, Err("Tab not found"))
     /\ UNCHANGED <<creating, uuid_count, parser_vars>>

\* set_active_tab
set_active_tab(ws, tab_id) ==
  LET created == get_or_create_session(sessions, ws)
      session == created[ws][1]
  IN /\ IF TabPosition(session.tabs, tab_id) # 0
        THEN /\ sessions' = [created EXCEPT ![ws] =
                               <<[session EXCEPT !.active_tab_id = Some(tab_id)]>>]
             /\ tab_result' = Returned("set_active_tab", ws, tab_id, Ok(<<>>))
        ELSE /\ sessions' = created
             /\ tab_result' = Returned("set_active_tab", ws, tab_id, Err("Tab not found"))
     /\ UNCHANGED <<content_cache, creating, uuid_count, parser_vars>>

\* the manager as the process starts it, with no document being parsed
TabInit ==
  /\ dialect = "gfm"
  /\ lines = <<>>
  /\ pc = "start"
  /\ i = 0
  /\ tokens = <<>>
  /\ html_cache = EmptyCache
  /\ r = 0
  /\ html = <<>>
  /\ word_count = 0
  /\ result = <<>>
  /\ TabManagerNew

\* the frontend invokes the commands in any order, on any workspace, with any id
TabNext ==
  \/ \E ws \in Workspaces, file_path \in {None} \cup {Some(p) : p \in Paths} :
       CreateTabBegin(ws, file_path)
  \/ \E c \in creating : CreateTabRead(c)
  \/ \E c \in creating : CreateTabAdd(c)
  \/ \E ws \in Workspaces, tab_id \in TabIds : close_tab(ws, tab_id)
  \/ \E ws \in Workspaces, tab_id \in TabIds : set_active_tab(ws, tab_id)

TabSpec == TabInit /\ [][TabNext]_vars

\* the tab list and the active tab id of a workspace (a workspace without a
\* session record has no tab and no active tab)
TabsOf(sess, ws) == IF sess[ws] = <<>> THEN <<>> ELSE sess[ws][1].tabs

ActiveOf(sess, ws) == IF sess[ws] = <<>> THEN None ELSE sess[ws][1].active_tab_id

\* the command that returned last gave the error "Tab not found"
TabNotFound ==
  /\ tab_result' # <<>>
  /\ tab_result'[1].returned[1] = "Err"
  /\ tab_result'[1].returned[2] = "Tab not found"

\* C30: under any interleaving of create_tab, set_active_tab and close_tab calls, a
\* session's active_tab_id is None or the id of a tab in the session's tab list;
\* set_active_tab and close_tab with an id that is not in the list return the
\* error "Tab not found" and leave the tab list and active_tab_id as they were;
\* closing the active tab removes it and activates the tab now at its position,
\* else the last tab, else None.
C30_ActiveTabIsInSession ==
  /\ [](\A ws \in Workspaces :
          \/ ActiveOf(sessions, ws) = None
          \/ TabPosition(TabsOf(sessions, ws), ActiveOf(sessions, ws)[1]) # 0)
  /\ [][ \A ws \in Workspaces, tab_id \in TabIds :
           /\ (close_tab(ws, tab_id) \/ set_active_tab(ws, tab_id))
           /\ TabPosition(TabsOf(sessions, ws), tab_id) = 0
           => /\ TabNotFound
              /\ TabsOf(sessions', ws) = TabsOf(sessions, ws)
              /\ ActiveOf(sessions', ws) = ActiveOf(sessions, ws) ]_vars
  /\ [][ \A ws \in Workspaces, tab_id \in TabIds :
           /\ close_tab(ws, tab_id)
           /\ ActiveOf(sessions, ws) = Some(tab_id)
           => LET pos == TabPosition(TabsOf(sessions, ws), tab_id)
                  now == TabsOf(sessions', ws)
              IN /\ now = RemoveAt(TabsOf(sessions, ws), pos)
                 /\ ActiveOf(sessions', ws) =
                      IF now = <<>> THEN None
                      ELSE IF pos <= Len(now) THEN Some(now[pos].id)
                      ELSE Some(now[Len(now)].id) ]_vars

\* a tab was closed in a session that keeps two tabs, and the session's active tab
\* is the one close_tab returned
C30_TabClosedAndActiveKept ==
  /\ tab_result # <<>>
  /\ tab_result[1].command = "close_tab"
  /\ tab_result[1].returned[1] = "Ok"
  /\ tab_result[1].returned[2] # None
  /\ LET ws == tab_result[1].workspace_path
     IN /\ Len(TabsOf(sessions, ws)) = 2
        /\ ActiveOf(sessions, ws) = tab_result[1].returned[2]
        /\ TabPosition(TabsOf(sessions, ws), tab_result[1].tab_id) = 0

====
